---------------------------- MODULE Spec2Model ----------------------------
(***************************************************************************)
(* A model of the story-search indexer (tools/indexer): canonicalization,  *)
(* quality classification, chunking, and the per-file persistence steps of *)
(* runIndexing against the relational store, the object store and the      *)
(* vector index, and the story deletion endpoint of the web application.   *)
(*                                                                         *)
(* Text is a sequence of characters.  A character is a one-letter string,  *)
(* or the name of a character that has no printable form:                  *)
(*   "SP" U+0020, "TAB" U+0009, "LF" U+000A, "CR" U+000D, "CTL" U+0001,    *)
(*   "NBSP" U+00A0, "LS" U+2028, "COMB" U+0301 (combining acute accent),   *)
(*   "E_ACUTE" U+00E9, "SUR" a lone surrogate, "FFFD" U+FFFD.              *)
(***************************************************************************)
EXTENDS Integers, Sequences, FiniteSets, TLC

VARIABLES
    canon,        \* normalizeCanonicalText applied once and twice to one input
    chunker,      \* one call sequence of chunkText: its locals and its result
    classifier,   \* one call of determineStatus: its parameters and its result
    folder,       \* the files of the indexed folder, by relative path
    stories,      \* the rows of table STORIES
    sources,      \* the rows of table STORY_SOURCES
    vectors,      \* the vectors of the Vectorize index
    tags,         \* the rows of table STORY_TAGS
    objects,      \* the keys of the objects of the R2 bucket
    settings,     \* table SETTINGS: the embedding model name and dimension
    run,          \* the locals of runIndexing: options, cursor, caches, batch
    api           \* one request to DELETE /api/story/:id and its response

calls == <<canon, chunker, classifier>>

\* The relational store, the object store and the vector index.
store == <<stories, sources, vectors, tags, objects, settings>>

pipeline == <<folder, stories, sources, vectors, tags, objects, settings, run, api>>

vars ==
    <<canon, chunker, classifier, folder, stories, sources, vectors, tags,
      objects, settings, run, api>>

-----------------------------------------------------------------------------
(* Bounds of the model.                                                    *)

MaxCanonLen == 3

MaxChunkTextLen == 5

MaxChunkSize == 3

MaxOverlap == 2

MaxChunks == 6

\* The invocations of runIndexing in one behaviour.
MaxRuns == 2

-----------------------------------------------------------------------------
(* The values the variables of a component hold while it is not in use.    *)

CanonIdle == [pc |-> "idle", input |-> <<>>, once |-> <<>>, twice |-> <<>>]

ChunkerIdle ==
    [pc |-> "idle", text |-> <<>>, options |-> [chunkSizeChars |-> 1, overlapChars |-> 1],
     cleaned |-> <<>>, start |-> 0, chunks |-> <<>>, call |-> 0, first |-> <<>>]

ClassifierIdle == [pc |-> "idle", params |-> <<>>, result |-> <<>>]

CallsIdle ==
    /\ canon = CanonIdle
    /\ chunker = ChunkerIdle
    /\ classifier = ClassifierIdle

\* No folder, an empty store and no run.
PipelineIdle ==
    /\ folder = <<>>
    /\ stories = {}
    /\ sources = {}
    /\ vectors = {}
    /\ tags = {}
    /\ objects = {}
    /\ settings = [model |-> "", dimension |-> 0]
    /\ run = [pc |-> "off"]
    /\ api = [pc |-> "off"]

-----------------------------------------------------------------------------
(* Sequence helpers.                                                       *)

Max(a, b) == IF a >= b THEN a ELSE b

Min(a, b) == IF a <= b THEN a ELSE b

\* All sequences over S of length 0..n.
SeqsUpTo(S, n) == UNION {[1..k -> S] : k \in 0..n}

\* String.prototype.slice(from, to) with 0-based offsets, 0 <= from.
Slice(s, from, to) == SubSeq(s, from + 1, Min(to, Len(s)))

RECURSIVE Flatten(_)
Flatten(ss) == IF ss = <<>> THEN <<>> ELSE Head(ss) \o Flatten(Tail(ss))

\* Each character of s replaced by the sequence f[c].
MapChars(s, f(_)) == Flatten([i \in 1..Len(s) |-> f(s[i])])

-----------------------------------------------------------------------------
(* Canonicalizer: tools/indexer/src/ingest.ts                              *)

\* The characters removed by /[\u0000-\u0008\u000b\u000c\u000e-\u001f\u007f]/g.
ControlChars == {"CTL"}

\* What String.prototype.trim() strips: WhiteSpace and LineTerminator.
TrimChars == {"SP", "TAB", "LF", "CR", "NBSP", "LS"}

\* Compatibility decomposition of one character.
Decompose(c) ==
    CASE c = "NBSP" -> <<"SP">>
      [] c = "E_ACUTE" -> <<"e", "COMB">>
      [] OTHER -> <<c>>

\* Canonical composition, left to right: a starter "e" directly followed by
\* the combining accent composes; any other character between them blocks it.
RECURSIVE Compose(_)
Compose(s) ==
    IF Len(s) < 2 THEN s
    ELSE IF s[1] = "e" /\ s[2] = "COMB"
         THEN <<"E_ACUTE">> \o Compose(SubSeq(s, 3, Len(s)))
         ELSE <<s[1]>> \o Compose(Tail(s))

\* String.prototype.normalize("NFKC").
NFKC(s) == Compose(MapChars(s, Decompose))

\* .replace(/\r\n/g, "\n").replace(/\r/g, "\n")
RECURSIVE UniformNewlines(_)
UniformNewlines(s) ==
    IF s = <<>> THEN <<>>
    ELSE IF s[1] = "CR"
         THEN IF Len(s) >= 2 /\ s[2] = "LF"
              THEN <<"LF">> \o UniformNewlines(SubSeq(s, 3, Len(s)))
              ELSE <<"LF">> \o UniformNewlines(Tail(s))
         ELSE <<s[1]>> \o UniformNewlines(Tail(s))

\* .replace(/[\u0000-\u0008\u000b\u000c\u000e-\u001f\u007f]/g, "")
StripControl(s) == SelectSeq(s, LAMBDA c : c \notin ControlChars)

\* .split("\n"): the lines of s, one more than its line feeds.
RECURSIVE SplitLines(_)
SplitLines(s) ==
    IF \A i \in 1..Len(s) : s[i] # "LF" THEN <<s>>
    ELSE LET k == CHOOSE i \in 1..Len(s) :
                      s[i] = "LF" /\ \A j \in 1..(i - 1) : s[j] # "LF"
         IN <<SubSeq(s, 1, k - 1)>> \o SplitLines(SubSeq(s, k + 1, Len(s)))

\* line.replace(/[ \t]+$/g, "")
RECURSIVE RTrimLine(_)
RTrimLine(line) ==
    IF line # <<>> /\ line[Len(line)] \in {"SP", "TAB"}
    THEN RTrimLine(SubSeq(line, 1, Len(line) - 1))
    ELSE line

\* .join("\n")
RECURSIVE JoinLines(_)
JoinLines(ls) ==
    IF Len(ls) = 1 THEN ls[1]
    ELSE ls[1] \o <<"LF">> \o JoinLines(Tail(ls))

\* .replace(/\n{3,}/g, "\n\n"): a line feed is dropped when two precede it.
RECURSIVE CollapseBlankLines(_, _)
CollapseBlankLines(s, lfs) ==
    IF s = <<>> THEN <<>>
    ELSE IF s[1] = "LF"
         THEN IF lfs >= 2
              THEN CollapseBlankLines(Tail(s), lfs)
              ELSE <<"LF">> \o CollapseBlankLines(Tail(s), lfs + 1)
         ELSE <<s[1]>> \o CollapseBlankLines(Tail(s), 0)

\* The first offset from i upwards (the last from i downwards) that holds no
\* whitespace.
RECURSIVE SkipBlanksUp(_, _)
SkipBlanksUp(s, i) ==
    IF i <= Len(s) /\ s[i] \in TrimChars THEN SkipBlanksUp(s, i + 1) ELSE i

RECURSIVE SkipBlanksDown(_, _)
SkipBlanksDown(s, i) ==
    IF i >= 1 /\ s[i] \in TrimChars THEN SkipBlanksDown(s, i - 1) ELSE i

\* String.prototype.trim()
Trim(s) == SubSeq(s, SkipBlanksUp(s, 1), SkipBlanksDown(s, Len(s)))

\* Buffer.from(text, "utf8").toString("utf8"): a lone surrogate cannot be
\* encoded and comes back as U+FFFD.
normalizeToUtf8(s) == [i \in 1..Len(s) |-> IF s[i] = "SUR" THEN "FFFD" ELSE s[i]]

normalizeCanonicalText(input) ==
    normalizeToUtf8(
        Trim(
            CollapseBlankLines(
                JoinLines(
                    LET ls == SplitLines(StripControl(UniformNewlines(NFKC(input))))
                    IN [i \in 1..Len(ls) |-> RTrimLine(ls[i])]), 0)))

-----------------------------------------------------------------------------
(* Chunker: tools/indexer/src/chunking.ts                                  *)

\* String.prototype.lastIndexOf(pat, pos), 0-based: the last offset <= pos at
\* which pat occurs in s, or -1.
lastIndexOf(s, pat, pos) ==
    LET hits == {i \in 0..Min(pos, Len(s) - Len(pat)) :
                    SubSeq(s, i + 1, i + Len(pat)) = pat}
    IN IF hits = {} THEN -1
       ELSE CHOOSE i \in hits : \A j \in hits : i >= j

\* text.replace(/\r\n/g, "\n").trim()
RECURSIVE ReplaceCrLf(_)
ReplaceCrLf(s) ==
    IF \A i \in 1..Len(s) : s[i] # "CR" THEN s
    ELSE IF Len(s) >= 2 /\ s[1] = "CR" /\ s[2] = "LF"
         THEN <<"LF">> \o ReplaceCrLf(SubSeq(s, 3, Len(s)))
         ELSE <<s[1]>> \o ReplaceCrLf(Tail(s))

Cleaned(text) == Trim(ReplaceCrLf(text))

\* Math.floor(chunkSizeChars * 0.6) and Math.floor(chunkSizeChars * 0.55):
\* the double product of an integer and 0.6 (0.55) never rounds across an
\* integer, so the floor is that of the exact product.
ParagraphFloor(chunkSizeChars) == (chunkSizeChars * 6) \div 10

SentenceFloor(chunkSizeChars) == (chunkSizeChars * 55) \div 100

\* A chunk end that is not clamped to the length of the text.
ChunkEndUnclamped(cleaned, start, options) == start + options.chunkSizeChars

\* Where the chunk that starts at `start` ends (lines 23-39).
ChunkEnd(cleaned, start, options) ==
    LET size == options.chunkSizeChars
        tentative == Min(start + size, Len(cleaned))
        paragraphBreak == lastIndexOf(cleaned, <<"LF", "LF">>, tentative)
        sentenceBreak == lastIndexOf(cleaned, <<".", "SP">>, tentative)
        end == IF tentative < Len(cleaned)
               THEN IF paragraphBreak > start + ParagraphFloor(size)
                    THEN paragraphBreak
                    ELSE IF sentenceBreak > start + SentenceFloor(size)
                         THEN sentenceBreak + 1
                         ELSE tentative
               ELSE tentative
    IN IF end <= start THEN Min(start + size, Len(cleaned)) ELSE end

\* A start offset that survives from one call to the next.
InitialStartKept(leftover) == leftover

\* The value `start` has before the first iteration (line 19): a local of the
\* call, whatever an earlier call left.
InitialStart(leftover) == 0

\* A chunk that is numbered by the window it was cut from.
PushChunkByWindow(chunks, cleaned, start, end) == IF Len(Trim(Slice(cleaned, start, end))) > 0 THEN Append(chunks, [chunkIndex |-> start, startChar |-> start, endChar |-> end, text |-> Trim(Slice(cleaned, start, end))]) ELSE chunks

\* chunks.push(...) when the trimmed slice is not empty (lines 41-50).
PushChunk(chunks, cleaned, start, end) ==
    LET raw == Trim(Slice(cleaned, start, end))
    IN IF Len(raw) > 0
       THEN Append(chunks, [chunkIndex |-> Len(chunks), startChar |-> start,
                            endChar |-> end, text |-> raw])
       ELSE chunks

\* A next start that leaves out the character at `end`.
NextStartSkipping(end, options) == end + 1

\* The start of the next chunk (line 56).
NextStart(end, options) == Max(0, end - options.overlapChars)

\* One iteration of the while loop (lines 22-57).
ChunkIter(cleaned, start, chunks, options) ==
    LET end == ChunkEnd(cleaned, start, options)
    IN [chunks |-> PushChunk(chunks, cleaned, start, end),
        done |-> end >= Len(cleaned),
        start |-> NextStart(end, options)]

\* The whole loop, for the callers that run it on a text and a configuration
\* on which it ends.
RECURSIVE ChunkLoop(_, _, _, _)
ChunkLoop(cleaned, start, chunks, options) ==
    LET it == ChunkIter(cleaned, start, chunks, options)
    IN IF it.done THEN it.chunks
       ELSE ChunkLoop(cleaned, it.start, it.chunks, options)

chunkText(text, options) ==
    IF Cleaned(text) = <<>> THEN <<>>
    ELSE ChunkLoop(Cleaned(text), InitialStart(0), <<>>, options)

-----------------------------------------------------------------------------
(* chunkText called twice on one canonical text and one configuration, one *)
(* loop iteration per step.                                                *)

ChunkAlphabet == {"a", ".", "SP", "LF"}

CanonicalTexts(alphabet, n) ==
    {t \in SeqsUpTo(alphabet, n) : normalizeCanonicalText(t) = t}

\* asNumber (config.ts) accepts the positive integers.
ChunkConfigs ==
    [chunkSizeChars : 1..MaxChunkSize, overlapChars : 1..MaxOverlap]

ChunkerCall(text, options, call, first) ==
    [pc |-> "call", text |-> text, options |-> options, cleaned |-> <<>>,
     start |-> 0, chunks |-> <<>>, call |-> call, first |-> first]

ChunkInit ==
    /\ chunker \in {ChunkerCall(t, o, 1, <<>>) :
                      t \in CanonicalTexts(ChunkAlphabet, MaxChunkTextLen),
                      o \in ChunkConfigs}
    /\ canon = CanonIdle
    /\ classifier = ClassifierIdle
    /\ PipelineIdle

\* Lines 13-20: clean the text, return [] when nothing is left.
ChunkBegin ==
    /\ chunker.pc = "call"
    /\ LET cleaned == Cleaned(chunker.text)
       IN chunker' = [chunker EXCEPT
                        !.cleaned = cleaned,
                        !.pc = IF cleaned = <<>> THEN "returned" ELSE "loop",
                        !.start = InitialStart(chunker.start),
                        !.chunks = <<>>]
    /\ UNCHANGED <<canon, classifier, pipeline>>

\* Lines 22-57: one iteration.
ChunkStep ==
    /\ chunker.pc = "loop"
    /\ Len(chunker.chunks) < MaxChunks
    /\ LET it == ChunkIter(chunker.cleaned, chunker.start, chunker.chunks,
                           chunker.options)
       IN chunker' = [chunker EXCEPT
                        !.chunks = it.chunks,
                        !.start = IF it.done THEN chunker.start ELSE it.start,
                        !.pc = IF it.done THEN "returned" ELSE "loop"]
    /\ UNCHANGED <<canon, classifier, pipeline>>

\* The same text and configuration are chunked again; the locals are left as
\* the first call left them.
ChunkAgain ==
    /\ chunker.pc = "returned"
    /\ chunker.call = 1
    /\ chunker' = [chunker EXCEPT !.pc = "call", !.call = 2,
                                  !.first = chunker.chunks]
    /\ UNCHANGED <<canon, classifier, pipeline>>

ChunkNext == ChunkBegin \/ ChunkStep \/ ChunkAgain

SpecChunk == ChunkInit /\ [][ChunkNext]_vars

IsBlank(s) == \A i \in 1..Len(s) : s[i] \in TrimChars

\* C6 as stated: the chunks chunkText returns for a non-empty canonical text
\* cover it with no gap: the first starts at 0, the last ends at the text
\* length, and each chunk starts no later than the one before it ends.
ChunkCoverageNoGap ==
    (chunker.pc = "returned" /\ chunker.text # <<>>) =>
        LET c == chunker.chunks
        IN /\ Len(c) >= 1
           /\ c[1].startChar = 0
           /\ c[Len(c)].endChar = Len(chunker.text)
           /\ \A i \in 1..(Len(c) - 1) : c[i + 1].startChar <= c[i].endChar

\* C6 as amended: whenever chunkText returns for a non-empty canonical text,
\* the first chunk starts at 0, the last ends at the text length, and a chunk
\* starts later than the one before it ends only when every character
\* between the two is whitespace.
ChunkCoverageUpToBlanks ==
    (chunker.pc = "returned" /\ chunker.text # <<>>) =>
        LET c == chunker.chunks
        IN /\ Len(c) >= 1
           /\ c[1].startChar = 0
           /\ c[Len(c)].endChar = Len(chunker.text)
           /\ \A i \in 1..(Len(c) - 1) :
                \/ c[i + 1].startChar <= c[i].endChar
                \/ IsBlank(Slice(chunker.text, c[i].endChar, c[i + 1].startChar))

\* A returned chunk list with a whitespace-only window left out between two
\* chunks.
ChunkCoverageWitness ==
    /\ chunker.pc = "returned"
    /\ \E i \in 1..(Len(chunker.chunks) - 1) :
         chunker.chunks[i + 1].startChar > chunker.chunks[i].endChar

-----------------------------------------------------------------------------
(* chunkText on documents of 2000 characters with the default configuration *)
(* (config.ts: CHUNK_SIZE_CHARS 1800, CHUNK_OVERLAP_CHARS 280).  A document *)
(* is plain letters with at most one paragraph break and one sentence      *)
(* break, placed around every offset the loop compares against.            *)

DefaultChunking == [docLen |-> 2000, chunkSizeChars |-> 1800, overlapChars |-> 280]

BreakOffsets ==
    {1, 280, 712, 713, 990, 991, 992, 1080, 1081, 1082, 1520, 1521, 1799,
     1800, 1801, 1900, 1997}

\* The document with a paragraph break at offset p and a sentence break at
\* offset q (-1: none).
Document(p, q) ==
    [i \in 1..DefaultChunking.docLen |->
        IF p >= 0 /\ i - 1 \in {p, p + 1} THEN "LF"
        ELSE IF q >= 0 /\ i - 1 = q THEN "."
        ELSE IF q >= 0 /\ i - 1 = q + 1 THEN "SP"
        ELSE "a"]

\* The two breaks do not overlap and no space ends a line.
BreaksFit(p, q) ==
    (p >= 0 /\ q >= 0) => (q + 2 < p \/ q > p + 1)

Chunk2000Init ==
    /\ chunker \in {ChunkerCall(Document(p, q),
                                [chunkSizeChars |-> DefaultChunking.chunkSizeChars,
                                 overlapChars |-> DefaultChunking.overlapChars],
                                1, <<>>) :
                      <<p, q>> \in {pq \in (BreakOffsets \cup {-1}) \X (BreakOffsets \cup {-1}) :
                                      BreaksFit(pq[1], pq[2])}}
    /\ canon = CanonIdle
    /\ classifier = ClassifierIdle
    /\ PipelineIdle

SpecChunk2000 == Chunk2000Init /\ [][ChunkNext]_vars

\* C7: a 2000-character document chunked with chunkSizeChars 1800 and
\* overlapChars 280 gives exactly 2 chunks, the second starting no later
\* than the first ends.
TwoChunksFor2000 ==
    chunker.pc = "returned" =>
        /\ Len(chunker.chunks) = 2
        /\ chunker.chunks[2].startChar <= chunker.chunks[1].endChar

\* The call has returned for a document whose first chunk was cut at a
\* paragraph break.
TwoChunksWitness ==
    /\ chunker.pc = "returned"
    /\ Len(chunker.chunks) = 2
    /\ chunker.chunks[1].endChar = 1081

-----------------------------------------------------------------------------
(* Quality classifier: tools/indexer/src/ingest.ts                          *)
(*                                                                         *)
(* determineStatus reads the extracted text only through its length and    *)
(* the two counts of detectBinaryGarbage, and the normalized text only     *)
(* through its length; its parameters carry those numbers.                 *)

\* An extraction result without errorMessage.
Undefined == "<undefined>"

\* JavaScript truthiness of an optional string.
Truthy(str) == str # Undefined /\ str # ""

\* detectBinaryGarbage (lines 165-174): controlCount matches of the control
\* character class and replacementCount matches of the replacement pattern in
\* a text of extractedLen characters; (c + r) / len > 0.01.
detectBinaryGarbage(extractedLen, controlCount, replacementCount) ==
    IF extractedLen = 0 THEN FALSE
    ELSE 100 * (controlCount + replacementCount) > extractedLen

\* detectPdfScannedImage (lines 176-187):
\* extractedChars / Math.max(1, fileSizeBytes / 1024) < 2.5.
detectPdfScannedImage(extractedChars, fileSizeBytes, config) ==
    IF extractedChars >= config.pdfMinTextChars THEN FALSE
    ELSE IF fileSizeBytes < 120 * 1024 THEN FALSE
    ELSE IF fileSizeBytes < 1024 THEN 2 * extractedChars < 5
    ELSE 2 * 1024 * extractedChars < 5 * fileSizeBytes

\* detectNeedsReview (lines 189-195).
detectNeedsReview(sourceType, extractedChars, fileSizeBytes, config) ==
    IF sourceType \notin {"html", "rtf", "doc"} THEN FALSE
    ELSE /\ extractedChars < config.minExtractChars
         /\ fileSizeBytes > config.minExtractChars * 8

\* A classifier that looks at the length before anything else.
determineStatusLengthFirst(params, config) ==
    IF params.normalizedLen < config.minExtractChars
    THEN "TOO_SHORT"
    ELSE IF Truthy(params.extractionError) \/ params.extractMethod = "failed"
    THEN "EXTRACTION_FAILED"
    ELSE IF detectBinaryGarbage(params.extractedLen, params.controlCount,
                                params.replacementCount)
    THEN "BINARY_GARBAGE"
    ELSE "OK"

\* determineStatus (lines 197-236): the status; each return is a branch.
determineStatus(params, config) ==
    IF Truthy(params.extractionError) \/ params.extractMethod = "failed"
    THEN "EXTRACTION_FAILED"
    ELSE IF detectBinaryGarbage(params.extractedLen, params.controlCount,
                                params.replacementCount)
    THEN "BINARY_GARBAGE"
    ELSE IF /\ params.sourceType = "pdf"
            /\ detectPdfScannedImage(params.normalizedLen, params.fileSizeBytes, config)
    THEN "PDF_SCANNED_IMAGE"
    ELSE IF detectNeedsReview(params.sourceType, params.normalizedLen,
                              params.fileSizeBytes, config)
    THEN "NEEDS_REVIEW"
    ELSE IF params.normalizedLen < config.minExtractChars
    THEN "TOO_SHORT"
    ELSE "OK"

-----------------------------------------------------------------------------
(* determineStatus called once on parameters an extractor can produce.     *)

SourceTypes == {"txt", "html", "rtf", "doc", "docx", "pdf"}

\* loadConfig defaults: MIN_EXTRACT_CHARS 500, PDF_MIN_TEXT_CHARS 800.
ClassifierConfig == [minExtractChars |-> 500, pdfMinTextChars |-> 800]

\* Extracted texts by length, control characters and replacement matches:
\* clean, at and above the 1% ratio, and empty.
TextProfiles ==
    {<<0, 0, 0>>, <<600, 0, 0>>, <<100, 1, 0>>, <<99, 1, 0>>, <<100, 0, 1>>,
     <<99, 0, 1>>, <<300, 2, 1>>, <<299, 2, 1>>}

NormalizedLens == {0, 50, 299, 300, 499, 500, 799, 800, 5000}

FileSizes == {0, 50, 4000, 4001, 122879, 122880, 327680, 1000000}

\* Every extractor that reports an errorMessage reports the method "failed"
\* with it (doc.ts, docx.ts, pdf.ts, rtf.ts).
ExtractionOutcomes ==
    {<<"failed", Undefined>>, <<"failed", "">>, <<"failed", "extraction failed">>,
     <<"fallback", Undefined>>}

ClassifierParams ==
    {[sourceType |-> t, extractMethod |-> o[1], extractionError |-> o[2],
      extractedLen |-> x[1], controlCount |-> x[2], replacementCount |-> x[3],
      normalizedLen |-> n, fileSizeBytes |-> b] :
        t \in SourceTypes, o \in ExtractionOutcomes, x \in TextProfiles,
        n \in NormalizedLens, b \in FileSizes}

ClassifyInit ==
    /\ classifier \in {[pc |-> "call", params |-> q, result |-> <<>>] :
                         q \in ClassifierParams}
    /\ canon = CanonIdle
    /\ chunker = ChunkerIdle
    /\ PipelineIdle

Classify ==
    /\ classifier.pc = "call"
    /\ classifier' = [classifier EXCEPT
                        !.pc = "returned",
                        !.result = determineStatus(classifier.params, ClassifierConfig)]
    /\ UNCHANGED <<canon, chunker, pipeline>>

ClassifyNext == Classify

SpecClassify == ClassifyInit /\ [][ClassifyNext]_vars

\* The statuses in their priority order, and the condition of each.
StatusPriority ==
    <<"EXTRACTION_FAILED", "BINARY_GARBAGE", "PDF_SCANNED_IMAGE", "NEEDS_REVIEW",
      "TOO_SHORT", "OK">>

StatusCondition(status, q, config) ==
    CASE status = "EXTRACTION_FAILED" ->
            q.extractionError # Undefined \/ q.extractMethod = "failed"
      [] status = "BINARY_GARBAGE" ->
            q.extractedLen > 0
            /\ 100 * (q.controlCount + q.replacementCount) > q.extractedLen
      [] status = "PDF_SCANNED_IMAGE" ->
            /\ q.sourceType = "pdf"
            /\ q.normalizedLen < config.pdfMinTextChars
            /\ q.fileSizeBytes >= 120 * 1024
            /\ 2 * 1024 * q.normalizedLen < 5 * q.fileSizeBytes
      [] status = "NEEDS_REVIEW" ->
            /\ q.sourceType \in {"html", "rtf", "doc"}
            /\ q.normalizedLen < config.minExtractChars
            /\ q.fileSizeBytes > 8 * config.minExtractChars
      [] status = "TOO_SHORT" -> q.normalizedLen < config.minExtractChars
      [] OTHER -> TRUE

\* C9: determineStatus returns the first status of the priority order whose
\* condition holds; a failed extraction is EXTRACTION_FAILED also when the
\* text is shorter than the minimum.
StatusByPriority ==
    classifier.pc = "returned" =>
        LET q == classifier.params
            first == CHOOSE i \in 1..6 :
                        /\ StatusCondition(StatusPriority[i], q, ClassifierConfig)
                        /\ \A j \in 1..(i - 1) :
                             ~StatusCondition(StatusPriority[j], q, ClassifierConfig)
        IN /\ classifier.result = StatusPriority[first]
           /\ (q.extractionError # Undefined \/ q.extractMethod = "failed")
                 => classifier.result = "EXTRACTION_FAILED"

\* A failed extraction of a text shorter than the minimum has been
\* classified.
StatusByPriorityWitness ==
    /\ classifier.pc = "returned"
    /\ classifier.params.extractMethod = "failed"
    /\ classifier.params.normalizedLen < ClassifierConfig.minExtractChars
    /\ classifier.result = "EXTRACTION_FAILED"

-----------------------------------------------------------------------------
(* The canonicalizer applied twice to one input.                           *)

CanonAlphabet ==
    {"a", "e", "COMB", "E_ACUTE", "SP", "TAB", "LF", "CR", "CTL", "NBSP", "LS", "SUR"}

CanonInit ==
    /\ canon \in {[pc |-> "input", input |-> t, once |-> <<>>, twice |-> <<>>] :
                    t \in SeqsUpTo(CanonAlphabet, MaxCanonLen)}
    /\ chunker = ChunkerIdle
    /\ classifier = ClassifierIdle
    /\ PipelineIdle

Canonicalize ==
    /\ canon.pc = "input"
    /\ canon' = [canon EXCEPT !.pc = "once",
                              !.once = normalizeCanonicalText(canon.input)]
    /\ UNCHANGED <<chunker, classifier, pipeline>>

CanonicalizeAgain ==
    /\ canon.pc = "once"
    /\ canon' = [canon EXCEPT !.pc = "twice",
                              !.twice = normalizeCanonicalText(canon.once)]
    /\ UNCHANGED <<chunker, classifier, pipeline>>

CanonNext == Canonicalize \/ CanonicalizeAgain

SpecCanon == CanonInit /\ [][CanonNext]_vars

\* C5: normalizeCanonicalText is idempotent: canonicalizing the canonical form
\* of any input gives that canonical form again.
CanonIdempotent == canon.pc = "twice" => canon.twice = canon.once

-----------------------------------------------------------------------------
(* The indexing pipeline: tools/indexer/src/indexer.ts (runIndexing with   *)
(* one store lookup per file) and its later revision (unnamed/part_014:    *)
(* runIndexing with the lookups prefetched into sourceByPath and           *)
(* canonicalByHash), over cloudflare.ts and ingest.ts.                     *)

\* null, and a hash or id that is not there.
Null == <<>>

\* The configuration of the modelled runs: values asNumber accepts.
Config ==
    [chunkSizeChars |-> 4, chunkOverlapChars |-> 1, minExtractChars |-> 5,
     pdfMinTextChars |-> 8, vectorBatchSize |-> 2]

\* The embedding models a run can be configured with (cfAiEmbedModel) and the
\* length of the vectors each returns.
EmbedModels ==
    {[name |-> "bge-base", dimension |-> 768],
     [name |-> "embeddinggemma", dimension |-> 768],
     [name |-> "bge-large", dimension |-> 1024]}

\* The model of the default configuration.
BaseModel == [name |-> "bge-base", dimension |-> 768]

\* Table SETTINGS without embedding_model_name and embedding_dimension:
\* loadEmbeddingSettings reads a missing name as empty and a missing or
\* non-positive dimension as null (0 here).
NoSettings == [model |-> "", dimension |-> 0]

\* The relative paths collectFiles can find, in its sorted order.
Paths == <<"a.txt", "b.docx", "c.pdf">>

PathSet == {Paths[i] : i \in 1..Len(Paths)}

extname(path) ==
    IF path = "b.docx" THEN ".docx" ELSE IF path = "c.pdf" THEN ".pdf" ELSE ".txt"

\* inferSourceType (ingest.ts) for the extensions of Paths.
inferSourceType(extension) ==
    IF extension = ".docx" THEN "docx" ELSE IF extension = ".pdf" THEN "pdf" ELSE "txt"

\* What a path holds: nothing, or bytes, `size` of them (bytes.byteLength);
\* `parsed` is what mammoth makes of the bytes of a .docx (Null: it throws),
\* and for a .pdf the texts pdf-parse and pdfjs return.
Absent == [present |-> FALSE, bytes |-> <<>>, size |-> 0, parsed |-> Null]

TextFile(bytes) ==
    [present |-> TRUE, bytes |-> bytes, size |-> Len(bytes), parsed |-> Null]

DocxFile(bytes, parsed) ==
    [present |-> TRUE, bytes |-> bytes, size |-> Len(bytes), parsed |-> parsed]

\* A PDF of `size` bytes, of which the model keeps the first.
PdfFile(bytes, size, parsed) ==
    [present |-> TRUE, bytes |-> bytes, size |-> size, parsed |-> parsed]

\* The files a path can hold: a story or a text shorter than minExtractChars
\* in a.txt; a damaged document or the same story in b.docx; no PDF.
FilesAt(path) ==
    IF extname(path) = ".docx"
    THEN {Absent, DocxFile(<<"P", "K">>, Null),
          DocxFile(<<"P", "K", "a">>, <<<<"a", "b", "c", "d", "e", "f">>>>)}
    ELSE IF extname(path) = ".pdf"
    THEN {Absent}
    ELSE {Absent,
          TextFile(<<"a", "b", "c", "d", "e", "f">>),
          TextFile(<<"a", "b">>)}

\* The files the classifier flags: in a.txt the story with a control
\* character in it; in c.pdf a scan of 120 KiB whose two text layers are
\* empty.
FlaggedFilesAt(path) ==
    IF extname(path) = ".txt"
    THEN {TextFile(<<"CTL", "a", "b", "c", "d", "e", "f">>)}
    ELSE IF extname(path) = ".pdf"
    THEN {PdfFile(<<"%", "P", "D", "F">>, 120 * 1024, <<<<>>, <<>>>>)}
    ELSE {}

AllFilesAt(path) == FilesAt(path) \cup FlaggedFilesAt(path)

AllFiles == UNION {AllFilesAt(p) : p \in PathSet}

Folders == {f \in [PathSet -> AllFiles] : \A p \in PathSet : f[p] \in FilesAt(p)}

\* Folders with a file the classifier flags, next to the story in b.docx.
FlaggedFolders ==
    {f \in [PathSet -> AllFiles] :
        /\ f["a.txt"] \in {Absent} \cup FlaggedFilesAt("a.txt")
        /\ f["b.docx"] \in FilesAt("b.docx") \ {DocxFile(<<"P", "K">>, Null)}
        /\ f["c.pdf"] \in AllFilesAt("c.pdf")}

\* sha256Buffer, sha256Text (ingest.ts): a digest stands for what it digests;
\* the digest of a text is that of its UTF-8 bytes.
sha256Buffer(bytes) == <<"sha256", bytes>>

sha256Text(text) == <<"sha256", text>>

\* createStoryId: the first 40 hex digits of the digest, which tell the
\* digests of the model apart.
createStoryId(canonHash) == <<"id40", canonHash[2]>>

\* extractTxt (part_014:4-17): the decoded bytes without U+0000.
extractTxt(file) ==
    [sourceType |-> "txt", extractMethod |-> "txt_utf8",
     extractedText |-> SelectSeq(file.bytes, LAMBDA c : c # "NUL"),
     errorMessage |-> Undefined]

\* extractDocx (extractors/docx.ts).
extractDocx(file) ==
    IF file.parsed # Null
    THEN [sourceType |-> "docx", extractMethod |-> "mammoth",
          extractedText |-> file.parsed[1], errorMessage |-> Undefined]
    ELSE [sourceType |-> "docx", extractMethod |-> "failed",
          extractedText |-> <<>>, errorMessage |-> "mammoth extraction failed"]

\* reflowPdfText (pdf.ts:24-60) on a text without a line break or a run of
\* blanks: the text trimmed, the empty string when it is blank.
reflowPdfText(text) == Trim(text)

\* extractPdf (pdf.ts:117-156): the text of pdf-parse when it is long enough,
\* that of pdfjs otherwise; "failed" when pdfjs throws.
extractPdf(file) ==
    IF file.parsed = Null
    THEN [sourceType |-> "pdf", extractMethod |-> "failed",
          extractedText |-> <<>>, errorMessage |-> "PDF extraction failed"]
    ELSE IF /\ Len(Trim(reflowPdfText(file.parsed[1]))) >= 120
            /\ Len(Trim(reflowPdfText(file.parsed[1]))) >=
                  (3 * Config.pdfMinTextChars) \div 10
    THEN [sourceType |-> "pdf", extractMethod |-> "pdf_parse",
          extractedText |-> reflowPdfText(file.parsed[1]), errorMessage |-> Undefined]
    ELSE [sourceType |-> "pdf", extractMethod |-> "pdfjs_fallback",
          extractedText |-> reflowPdfText(file.parsed[2]), errorMessage |-> Undefined]

\* The matches of the control character class in a text.
CountControl(text) == Len(SelectSeq(text, LAMBDA c : c \in ControlChars))

\* The matches of the three-character replacement pattern in a text.
RECURSIVE CountReplacement(_)
CountReplacement(text) ==
    IF Len(text) < 3 THEN 0
    ELSE IF SubSeq(text, 1, 3) = <<"I_DIAERESIS", "INV_QUESTION", "HALF">>
         THEN 1 + CountReplacement(SubSeq(text, 4, Len(text)))
         ELSE CountReplacement(Tail(text))

\* ingestSourceFile, lines 295-311: the result, once the status is known.
ingestClassified(relativePath, extraction, normalizedText, rawHash, status) ==
    [sourcePath |-> relativePath,
     sourceType |-> extraction.sourceType,
     extractMethod |-> extraction.extractMethod,
     normalizedText |-> normalizedText,
     rawHash |-> rawHash,
     canonHash |-> IF status = "EXTRACTION_FAILED" THEN Null
                   ELSE sha256Text(normalizedText),
     status |-> status]

\* ingestSourceFile, lines 281-293: determineStatus on the extraction and the
\* normalized text.
ingestNormalized(file, relativePath, extraction, normalizedText) ==
    ingestClassified(relativePath, extraction, normalizedText,
                     sha256Buffer(file.bytes),
                     determineStatus(
                        [sourceType |-> extraction.sourceType,
                         extractMethod |-> extraction.extractMethod,
                         extractionError |-> extraction.errorMessage,
                         extractedLen |-> Len(extraction.extractedText),
                         controlCount |-> CountControl(extraction.extractedText),
                         replacementCount |-> CountReplacement(extraction.extractedText),
                         normalizedLen |-> Len(normalizedText),
                         fileSizeBytes |-> file.size],
                        Config))

\* ingestSourceFile, lines 279-280: normalizeCanonicalText on the extracted
\* text.
ingestExtracted(file, relativePath, extraction) ==
    ingestNormalized(file, relativePath, extraction,
                     normalizeCanonicalText(extraction.extractedText))

\* ingestSourceFile (ingest.ts:238-312): the extractor of the extension, then
\* the steps above.
ingestSourceFile(file, relativePath) ==
    ingestExtracted(file, relativePath,
                    IF inferSourceType(extname(relativePath)) = "docx"
                    THEN extractDocx(file)
                    ELSE IF inferSourceType(extname(relativePath)) = "pdf"
                    THEN extractPdf(file) ELSE extractTxt(file))

\* ingestSourceFile on every file of every path.
Ingested == [p \in PathSet |-> [f \in AllFilesAt(p) |-> ingestSourceFile(f, p)]]

\* Embeddings for every status but a failed extraction.
shouldEmbedUnlessFailed(status) == status # "EXTRACTION_FAILED"

\* shouldGenerateEmbeddings (indexer.ts:40-42).
shouldGenerateEmbeddings(status) ==
    status \notin {"EXTRACTION_FAILED", "PDF_SCANNED_IMAGE", "BINARY_GARBAGE"}

-----------------------------------------------------------------------------
(* CloudflareClient (cloudflare.ts): a STORIES row is                      *)
(* [STORY_ID, CANON_HASH, STORY_STATUS, SOURCE_COUNT, CHUNK_COUNT] and,    *)
(* when the indexer wrote it, STATUS_NOTES, a                              *)
(* STORY_SOURCES row [STORY_ID, SOURCE_PATH, RAW_HASH], a STORY_TAGS row    *)
(* [STORY_ID, TAG], an object key [kind, storyId] for stories/<id>.txt     *)
(* ("text") and stories/<id>.chunks.json ("chunks"), a vector              *)
(* [storyId, chunkIndex, storyStatus, model] with the id                   *)
(* storyId:chunkIndex, `model` being the embedding model that made its     *)
(* values and their number.                                                *)

\* An INSERT INTO STORIES without the ON CONFLICT clause.
insertStory(table, row) == table \cup {row}

\* upsertStory: INSERT ... ON CONFLICT(STORY_ID) DO UPDATE of every column.
upsertStory(table, row) ==
    {s \in table : s.STORY_ID # row.STORY_ID} \cup {row}

\* A DELETE of every record of the path, that of this story included.
deleteSourcesOfPath(table, row) ==
    {s \in table : s.SOURCE_PATH # row.SOURCE_PATH}

\* An upsertStorySource without its DELETE.
deleteOtherSourcesNone(table, row) == table

\* upsertStorySource, first statement:
\* DELETE FROM STORY_SOURCES WHERE SOURCE_PATH = ? AND STORY_ID != ?.
deleteOtherSources(table, row) ==
    {s \in table : ~(s.SOURCE_PATH = row.SOURCE_PATH /\ s.STORY_ID # row.STORY_ID)}

\* upsertStorySource, second statement: INSERT OR REPLACE of the row of this
\* story and path.
insertSource(table, row) ==
    {s \in table : ~(s.SOURCE_PATH = row.SOURCE_PATH /\ s.STORY_ID = row.STORY_ID)}
        \cup {row}

\* A count that finds no source.
countSourcesNone(table, storyId) == 0

\* SELECT COUNT(*) FROM STORY_SOURCES WHERE STORY_ID = ?.
countSources(table, storyId) == Cardinality({s \in table : s.STORY_ID = storyId})

\* A refresh that leaves SOURCE_COUNT as it is.
refreshSourceCountKept(storyTable, sourceTable, storyId) == storyTable

\* refreshSourceCount: UPDATE STORIES SET SOURCE_COUNT = the count.
refreshSourceCount(storyTable, sourceTable, storyId) ==
    {IF s.STORY_ID = storyId
     THEN [s EXCEPT !.SOURCE_COUNT = countSources(sourceTable, storyId)]
     ELSE s : s \in storyTable}

\* An orphan check that never deletes.
deleteStoryKept(table, storyId) == table

\* deleteStoryIfOrphan, last statement: DELETE FROM STORIES WHERE STORY_ID = ?.
deleteStory(table, storyId) == {s \in table : s.STORY_ID # storyId}

upsertVectorsLost(index, batch) == index

\* upsertVectors: upsert by id.
upsertVectors(index, batch) ==
    LET new == {batch[i] : i \in 1..Len(batch)}
    IN {v \in index : ~\E n \in new : n.storyId = v.storyId /\ n.chunkIndex = v.chunkIndex}
         \cup new

\* replaceStoryTags, first statement: DELETE FROM STORY_TAGS WHERE STORY_ID = ?.
deleteStoryTags(table, storyId) == {t \in table : t.STORY_ID # storyId}

\* replaceStoryTags, in the loop: INSERT OR REPLACE INTO STORY_TAGS.
insertStoryTag(table, storyId, tag) == table \cup {[STORY_ID |-> storyId, TAG |-> tag]}

\* uploadTextObject, uploadJsonObject: PutObject under the key.
putObject(bucket, kind, storyId) == bucket \cup {[kind |-> kind, storyId |-> storyId]}

\* getSourceByPath: the rows of a path (the query takes one).
getSourceByPath(table, sourcePath) == {s \in table : s.SOURCE_PATH = sourcePath}

\* getStoryByCanonHash: the rows of a hash (the query takes one).
getStoryByCanonHash(table, canonHash) == {s \in table : s.CANON_HASH = canonHash}


-----------------------------------------------------------------------------
(* One iteration of the file loop of runIndexing.  The awaited calls of    *)
(* the iteration are listed in the order the code makes them and applied   *)
(* one after the other; the call at position failAt throws, which ends the *)
(* iteration in the catch block with the earlier calls done.               *)

\* The command line (cli.ts): incremental by default, --no-changed-only,
\* --full; here without --force-reindex.
RunOptions ==
    {[changedOnly |-> TRUE, reprocessExisting |-> FALSE, forceReindex |-> FALSE],
     [changedOnly |-> FALSE, reprocessExisting |-> FALSE, forceReindex |-> FALSE],
     [changedOnly |-> FALSE, reprocessExisting |-> TRUE, forceReindex |-> FALSE]}

\* The same command lines with and without --force-reindex.
ForceOptions ==
    RunOptions \cup {[o EXCEPT !.forceReindex = TRUE] : o \in RunOptions}

\* The two revisions of runIndexing.
Builds == {"lookup", "prefetch"}

\* What the iteration works on: the store and the locals of the run.
StepContext ==
    [stories |-> stories, sources |-> sources, vectors |-> vectors,
     tags |-> tags, objects |-> objects,
     vectorBatch |-> run.vectorBatch, sourceByPath |-> run.sourceByPath,
     canonicalByHash |-> run.canonicalByHash, embedded |-> FALSE,
     orphanDeleted |-> Null, summary |-> run.summary]

Call(name) == [call |-> name]

\* summary.<counter> += 1
Count(counter) == [call |-> "summary", counter |-> counter]

\* upsertStorySource, deleteStoryIfOrphan when the path's previous record
\* pointed at another story, refreshSourceCount, sourceByPath.set.
MappingCalls(build, row, previousSource) ==
    <<[call |-> "deleteOtherSources", row |-> row],
      [call |-> "insertSource", row |-> row]>>
    \o (IF \E prev \in previousSource : prev.STORY_ID # row.STORY_ID
        THEN LET prev == CHOOSE prev \in previousSource : TRUE
             IN <<[call |-> "orphanRefresh", storyId |-> prev.STORY_ID],
                  [call |-> "orphanDelete", storyId |-> prev.STORY_ID]>>
                \o (IF build = "prefetch"
                    THEN <<[call |-> "canonicalByHash.delete", storyId |-> prev.STORY_ID]>>
                    ELSE <<>>)
        ELSE <<>>)
    \o <<[call |-> "refreshSourceCount", storyId |-> row.STORY_ID]>>
    \o (IF build = "prefetch"
        THEN <<[call |-> "sourceByPath.set", row |-> row]>>
        ELSE <<>>)

\* embedInBatches, then per chunk a flush of a full batch and the push.
VectorCalls(storyId, status, chunks, model) ==
    <<[call |-> "embedInBatches", inputs |-> Len(chunks)]>>
    \o Flatten([i \in 1..Len(chunks) |->
                  <<[call |-> "flushVectorBatch"],
                    [call |-> "vectorBatch.push",
                     vector |-> [storyId |-> storyId,
                                 chunkIndex |-> chunks[i].chunkIndex,
                                 storyStatus |-> status,
                                 model |-> model]]>>])

\* The tags of the metadata the story is persisted with: those the metadata
\* service returned, none with fallbackMetadata (the status rules out the
\* service, or its call failed and the failure was caught).
ServiceTags == {"tag"}

MetadataTags(status, metadataOk) ==
    IF shouldGenerateEmbeddings(status) /\ metadataOk THEN ServiceTags ELSE {}

MetadataFailureNote == "Metadata extraction fallback used"

\* Status notes without the note of a failed metadata call.
StatusNotesOfIngest(status, metadataOk) == {}

\* indexedStory.statusNotes as the parts joined by " | ": the note of the
\* catch around extractStoryMetadata when the call was made and failed; the
\* notes of the ingest are left out.
StatusNotes(status, metadataOk) == IF shouldGenerateEmbeddings(status) /\ ~metadataOk THEN {MetadataFailureNote} ELSE {}

\* extractStoryMetadata, called when the status permits it.
MetadataCalls(status, metadataOk) ==
    IF shouldGenerateEmbeddings(status)
    THEN <<[call |-> "extractStoryMetadata", ok |-> metadataOk]>>
    ELSE <<>>

\* replaceStoryTags: the DELETE, then one INSERT per tag.
TagCalls(storyId, storyTags) ==
    <<[call |-> "deleteStoryTags", storyId |-> storyId]>>
    \o (IF storyTags = {} THEN <<>>
        ELSE <<[call |-> "insertStoryTag", storyId |-> storyId,
                tag |-> CHOOSE t \in storyTags : TRUE]>>)

\* chunkText on every canonical text of the folder, with the configured size
\* and overlap.
Chunked ==
    [text \in {Ingested[p][f].normalizedText : <<p, f>> \in
                 {pf \in PathSet \X AllFiles : pf[2] \in AllFilesAt(pf[1])}} |->
        chunkText(text, [chunkSizeChars |-> Config.chunkSizeChars,
                         overlapChars |-> Config.chunkOverlapChars])]

\* The calls of the full branch (indexer.ts:403-521, part_014:595-746).
FullCalls(build, ingest, row, previousSource, chunks, model, metadataOk) ==
    <<Call("fs.writeFile")>>
    \o MetadataCalls(ingest.status, metadataOk)
    \o <<[call |-> "uploadTextObject", storyId |-> row.STORY_ID],
          [call |-> "uploadJsonObject", storyId |-> row.STORY_ID],
          [call |-> "upsertStory",
           row |-> [STORY_ID |-> row.STORY_ID, CANON_HASH |-> ingest.canonHash,
                    STORY_STATUS |-> ingest.status, SOURCE_COUNT |-> 1,
                    CHUNK_COUNT |-> Len(chunks),
                    STATUS_NOTES |-> StatusNotes(ingest.status, metadataOk)]]>>
    \o TagCalls(row.STORY_ID, MetadataTags(ingest.status, metadataOk))
    \o MappingCalls(build, row, previousSource)
    \o (IF build = "prefetch"
        THEN <<[call |-> "canonicalByHash.set",
                row |-> [CANON_HASH |-> ingest.canonHash, STORY_ID |-> row.STORY_ID]]>>
        ELSE <<>>)
    \o (IF shouldGenerateEmbeddings(ingest.status)
        THEN VectorCalls(row.STORY_ID, ingest.status, chunks, model)
        ELSE <<>>)
    \o <<Count("indexed")>>

\* The calls of the dedup branch (indexer.ts:382-401, part_014:561-593).
DedupCalls(build, row, previousSource) ==
    <<Call("fs.writeFile")>> \o MappingCalls(build, row, previousSource)
    \o <<Count("deduped")>>

\* The calls of an iteration that got past the unchanged and extraction
\* checks (indexer.ts:363-521, part_014:545-746).
StepCalls(build, options, ingest, storyId, existing, previousSource, model, metadataOk) ==
    IF existing /\ ~options.reprocessExisting
    THEN DedupCalls(build,
                    [STORY_ID |-> storyId, SOURCE_PATH |-> ingest.sourcePath,
                     RAW_HASH |-> ingest.rawHash],
                    previousSource)
    ELSE FullCalls(build, ingest,
                   [STORY_ID |-> storyId, SOURCE_PATH |-> ingest.sourcePath,
                    RAW_HASH |-> ingest.rawHash],
                   previousSource, Chunked[ingest.normalizedText], model,
                   metadataOk)

\* Whether the call goes out to a service in this context, and so can throw.
Throws(ctx, c) ==
    CASE c.call \in {"canonicalByHash.delete", "canonicalByHash.set",
                     "sourceByPath.set", "vectorBatch.push",
                     "extractStoryMetadata", "summary"} -> FALSE
      [] c.call = "orphanDelete" -> countSources(ctx.sources, c.storyId) = 0
      [] c.call = "flushVectorBatch" -> Len(ctx.vectorBatch) >= Config.vectorBatchSize
      [] c.call = "embedInBatches" -> c.inputs > 0
      [] OTHER -> TRUE

\* The effect of a call that returns.
Effect(ctx, c) ==
    CASE c.call = "upsertStory" ->
            [ctx EXCEPT !.stories = upsertStory(@, c.row)]
      [] c.call = "uploadTextObject" ->
            [ctx EXCEPT !.objects = putObject(@, "text", c.storyId)]
      [] c.call = "uploadJsonObject" ->
            [ctx EXCEPT !.objects = putObject(@, "chunks", c.storyId)]
      [] c.call = "deleteStoryTags" ->
            [ctx EXCEPT !.tags = deleteStoryTags(@, c.storyId)]
      [] c.call = "insertStoryTag" ->
            [ctx EXCEPT !.tags = insertStoryTag(@, c.storyId, c.tag)]
      [] c.call = "deleteOtherSources" ->
            [ctx EXCEPT !.sources = deleteOtherSources(@, c.row)]
      [] c.call = "insertSource" ->
            [ctx EXCEPT !.sources = insertSource(@, c.row)]
      [] c.call \in {"orphanRefresh", "refreshSourceCount"} ->
            [ctx EXCEPT !.stories = refreshSourceCount(@, ctx.sources, c.storyId)]
      [] c.call = "orphanDelete" ->
            IF countSources(ctx.sources, c.storyId) > 0 THEN ctx
            ELSE [ctx EXCEPT !.stories = deleteStory(@, c.storyId),
                             !.orphanDeleted = c.storyId]
      [] c.call = "canonicalByHash.delete" ->
            [ctx EXCEPT !.canonicalByHash = {e \in @ : e.STORY_ID # c.storyId}]
      [] c.call = "canonicalByHash.set" ->
            [ctx EXCEPT !.canonicalByHash =
                {e \in @ : e.CANON_HASH # c.row.CANON_HASH} \cup {c.row}]
      [] c.call = "sourceByPath.set" ->
            [ctx EXCEPT !.sourceByPath =
                {e \in @ : e.SOURCE_PATH # c.row.SOURCE_PATH} \cup {c.row}]
      [] c.call = "embedInBatches" ->
            [ctx EXCEPT !.embedded = c.inputs > 0]
      [] c.call = "flushVectorBatch" ->
            IF Len(ctx.vectorBatch) >= Config.vectorBatchSize
            THEN [ctx EXCEPT !.vectors = upsertVectors(@, ctx.vectorBatch),
                             !.vectorBatch = <<>>]
            ELSE ctx
      [] c.call = "vectorBatch.push" ->
            [ctx EXCEPT !.vectorBatch = Append(@, c.vector)]
      [] c.call = "summary" ->
            [ctx EXCEPT !.summary[c.counter] = @ + 1]
      [] OTHER -> ctx

\* The calls from position i on; `threw` when the call at failAt threw,
\* `possible` unless the call at failAt is one that cannot throw, `made` the
\* number of calls the iteration got to.
RECURSIVE RunCalls(_, _, _, _)
RunCalls(ctx, cs, i, failAt) ==
    IF i > Len(cs)
    THEN [ctx |-> ctx, threw |-> FALSE, possible |-> failAt = 0, made |-> Len(cs)]
    ELSE IF i = failAt
         THEN [ctx |-> ctx, threw |-> TRUE, possible |-> Throws(ctx, cs[i]),
               made |-> i]
         ELSE RunCalls(Effect(ctx, cs[i]), cs, i + 1, failAt)


-----------------------------------------------------------------------------
(* runIndexing as a state machine: StartRun and AbortRun are the code      *)
(* before the file loop, which reaches the loop or throws; ProcessFile is  *)
(* one iteration of the loop; FinishRun is the code after it.  Runs follow *)
(* one another on the same store; the folder, the options and the          *)
(* configured embedding model may change between two runs.                 *)

NoStep ==
    [path |-> "", outcome |-> "none", threw |-> FALSE, sourceType |-> "",
     status |-> "", canonHash |-> Null, storyId |-> Null, existing |-> FALSE,
     embedded |-> FALSE, orphanDeleted |-> Null, soleStories |-> {},
     called |-> {}, storyTags |-> {}, previous |-> {}]

\* The counters of the RunSummary (indexer.ts:268-274).
NoSummary == [scanned |-> 0, indexed |-> 0, deduped |-> 0, skipped |-> 0, failed |-> 0]

NoRun(build) ==
    [pc |-> "idle", build |-> build, summary |-> NoSummary,
     options |-> [changedOnly |-> TRUE, reprocessExisting |-> FALSE,
                  forceReindex |-> FALSE],
     model |-> BaseModel, ended |-> "",
     files |-> <<>>, cursor |-> 1, vectorBatch |-> <<>>,
     sourceByPath |-> {}, canonicalByHash |-> {},
     outcome |-> [p \in PathSet |-> "pending"], last |-> NoStep,
     extractionFailures |-> {}, reports |-> FALSE, mapped |-> FALSE,
     rerun |-> FALSE, overridden |-> FALSE, number |-> 0]

\* What is left of a run when runIndexing has returned or thrown: how it
\* ended, whether writeReports wrote the reports, and whether every file it
\* found was indexed or deduped.
EndedRun(pc, ended, reports) ==
    [NoRun(run.build) EXCEPT
       !.pc = pc, !.ended = ended, !.reports = reports,
       !.overridden = run.overridden, !.number = run.number,
       !.mapped = /\ run.files # <<>>
                  /\ \A i \in 1..Len(run.files) :
                       run.outcome[run.files[i]] \in {"indexed", "deduped"}]

Init ==
    /\ CallsIdle
    /\ folder = [p \in PathSet |-> Absent]
    /\ stories = {}
    /\ sources = {}
    /\ vectors = {}
    /\ tags = {}
    /\ objects = {}
    /\ settings = NoSettings
    /\ run \in {NoRun(b) : b \in Builds}
    /\ api = [pc |-> "off"]

\* No invocation of runIndexing is under way, and another one can be made.
BetweenRuns ==
    /\ run.pc \in {"idle", "done", "failed", "aborted"}
    /\ run.number < MaxRuns

\* The two checks of the stored settings (indexer.ts:295-314).
ModelMismatch(stored, model, options) ==
    /\ stored.model # ""
    /\ stored.model # model.name
    /\ ~options.forceReindex

\* The dimension check with the flag inverted.
DimensionMismatchForced(stored, model, options) ==
    /\ stored.dimension # 0
    /\ stored.dimension # model.dimension
    /\ options.forceReindex

DimensionMismatch(stored, model, options) ==
    /\ stored.dimension # 0
    /\ stored.dimension # model.dimension
    /\ ~options.forceReindex

\* The files of the folder that have a SourceRecord, which the later revision
\* reads and hashes before the loop in a changed-only run (part_014:449-471).
Prehashed(build, f, options) ==
    IF build = "prefetch" /\ options.changedOnly
    THEN {p \in PathSet : f[p].present /\ getSourceByPath(sources, p) # {}}
    ELSE {}

\* How the code before the loop can throw: the dimension probe fails, a
\* stored setting differs from the run's, a call to the store or to the file
\* system throws (getSetting, getAllSources, getAllStoriesByCanonHash,
\* fs.mkdir), or loadSourceRaw throws in the prehash stage.
AbortReasons(build, f, options, model) ==
    {"probe", "call"}
    \cup (IF ModelMismatch(settings, model, options) THEN {"model"} ELSE {})
    \cup (IF /\ ~ModelMismatch(settings, model, options)
             /\ DimensionMismatch(settings, model, options)
          THEN {"dimension"} ELSE {})
    \cup (IF /\ ~ModelMismatch(settings, model, options)
             /\ ~DimensionMismatch(settings, model, options)
             /\ Prehashed(build, f, options) # {}
          THEN {"prehash"} ELSE {})

\* The locals of a run over folder f (collectFiles; in the later revision the
\* prefetch of getAllSources and getAllStoriesByCanonHash).
NewRun(f, options, model) ==
    [NoRun(run.build) EXCEPT
       !.options = options,
       !.model = model,
       !.files = SelectSeq(Paths, LAMBDA p : f[p].present),
       !.summary = [NoSummary EXCEPT !.scanned = Len(SelectSeq(Paths, LAMBDA p : f[p].present))],
       !.sourceByPath = IF run.build = "prefetch" THEN sources ELSE {},
       !.canonicalByHash =
           IF run.build = "prefetch"
           THEN {[CANON_HASH |-> s.CANON_HASH, STORY_ID |-> s.STORY_ID] :
                   s \in {t \in stories : t.CANON_HASH # Null}}
           ELSE {},
       !.overridden = run.overridden \/ options.forceReindex,
       !.number = run.number + 1,
       !.rerun = f = folder /\ run.mapped]

\* The code before the loop runs through: the probe returns the model's
\* dimension and the stored settings pass both checks.
Begin(folders, optionSet, models) ==
    /\ BetweenRuns
    /\ \E f \in folders, o \in optionSet, m \in models :
         /\ ~ModelMismatch(settings, m, o)
         /\ ~DimensionMismatch(settings, m, o)
         /\ folder' = f
         /\ run' = [NewRun(f, o, m) EXCEPT !.pc = "files"]
    /\ UNCHANGED <<store, calls, api>>

\* The code before the loop throws.
Abort(folders, optionSet, models) ==
    /\ BetweenRuns
    /\ \E f \in folders, o \in optionSet, m \in models :
         \E reason \in AbortReasons(run.build, f, o, m) :
            /\ folder' = f
            /\ run' = [EndedRun("aborted", reason, FALSE) EXCEPT
                         !.overridden = run.overridden \/ o.forceReindex,
                         !.number = run.number + 1,
                         !.files = SelectSeq(Paths, LAMBDA p : f[p].present)]
    /\ UNCHANGED <<store, calls, api>>

StartRun == Begin(Folders, RunOptions, {BaseModel})

AbortRun == Abort(Folders, RunOptions, {BaseModel})

\* An iteration that goes on with a file whose extraction failed.
EarlyExitUnchangedOnly(build, unchanged, extractionFailed) ==
    IF unchanged THEN "skipped" ELSE "none"

\* The early exits of an iteration: unchanged is tested before the ingest in
\* the later revision (part_014:495-510) and after the extraction check in
\* the first (indexer.ts:350-370).
EarlyExit(build, unchanged, extractionFailed) ==
    IF build = "prefetch"
    THEN IF unchanged THEN "skipped"
         ELSE IF extractionFailed THEN "failed" ELSE "none"
    ELSE IF extractionFailed THEN "failed"
         ELSE IF unchanged THEN "skipped" ELSE "none"

\* The reads an iteration awaits before its first write.
Reads(build, unchanged, extractionFailed) ==
    IF build = "prefetch"
    THEN IF unchanged THEN <<>> ELSE <<Call("ingestSourceFile")>>
    ELSE IF extractionFailed THEN <<Call("ingestSourceFile")>>
         ELSE IF unchanged
              THEN <<Call("ingestSourceFile"), Call("getSourceByPath")>>
              ELSE <<Call("ingestSourceFile"), Call("getSourceByPath"),
                     Call("getStoryByCanonHash")>>

\* The Stories other than that of canonHash whose SourceRecords are those of
\* the path and no other.
SoleStories(relativePath, canonHash) ==
    {s.STORY_ID : s \in
       {t \in stories :
          /\ t.CANON_HASH # canonHash
          /\ \A r \in sources : r.STORY_ID = t.STORY_ID <=> r.SOURCE_PATH = relativePath
          /\ \E r \in sources : r.STORY_ID = t.STORY_ID}}

\* What an iteration is going to do, once its lookups are made.
PlanResolved(ingest, previousSource, early, reads, existing, storyId, metadataOk) ==
    [path |-> ingest.sourcePath,
     ingest |-> ingest,
     storyId |-> storyId,
     existing |-> existing,
     outcome |-> IF early # "none" THEN early
                 ELSE IF existing /\ ~run.options.reprocessExisting
                      THEN "deduped" ELSE "indexed",
     calls |-> IF early # "none" THEN reads \o <<Count(early)>>
               ELSE reads \o StepCalls(run.build, run.options, ingest, storyId,
                                       existing, previousSource, run.model,
                                       metadataOk),
     storyTags |-> MetadataTags(ingest.status, metadataOk),
     previous |-> {prev.STORY_ID : prev \in previousSource},
     soleStories |-> SoleStories(ingest.sourcePath, ingest.canonHash)]

\* existingCanonical and storyId (indexer.ts:372-373, part_014:547-548).
PlanLookedUp(ingest, previousSource, unchanged, extractionFailed, existingCanonical, metadataOk) ==
    PlanResolved(ingest, previousSource,
                 EarlyExit(run.build, unchanged, extractionFailed),
                 Reads(run.build, unchanged, extractionFailed),
                 existingCanonical # {},
                 IF extractionFailed THEN Null
                 ELSE IF existingCanonical # {}
                      THEN (CHOOSE s \in existingCanonical : TRUE).STORY_ID
                      ELSE createStoryId(ingest.canonHash),
                 metadataOk)

\* The unchanged and extraction checks, and the lookup of the canonical hash
\* in canonicalByHash or in the store.
PlanIngested(file, ingest, previousSource, metadataOk) ==
    PlanLookedUp(ingest, previousSource,
                 /\ run.options.changedOnly
                 /\ \E prev \in previousSource : prev.RAW_HASH = sha256Buffer(file.bytes),
                 ingest.status = "EXTRACTION_FAILED" \/ ingest.canonHash = Null,
                 IF ingest.status = "EXTRACTION_FAILED" \/ ingest.canonHash = Null
                 THEN {}
                 ELSE IF run.build = "prefetch"
                      THEN getStoryByCanonHash(run.canonicalByHash, ingest.canonHash)
                      ELSE getStoryByCanonHash(stories, ingest.canonHash),
                 metadataOk)

\* What the iteration for relativePath decides before its first write: the
\* ingest, previousSource from sourceByPath or from the store, the early
\* exits and the awaited calls that follow; metadataOk tells whether the
\* metadata service answers this file, if asked.
Plan(relativePath, metadataOk) ==
    PlanIngested(folder[relativePath],
                 Ingested[relativePath][folder[relativePath]],
                 IF run.build = "prefetch"
                 THEN getSourceByPath(run.sourceByPath, relativePath)
                 ELSE getSourceByPath(sources, relativePath),
                 metadataOk)

\* The calls that read and extract the file or go out to the metadata and
\* embedding services.
Services == {"ingestSourceFile", "extractStoryMetadata", "embedInBatches"}

\* What the iteration was, for the properties below.
LastStep(plan, done) ==
    [path |-> plan.path,
     outcome |-> IF done.threw THEN "failed" ELSE plan.outcome,
     threw |-> done.threw,
     sourceType |-> plan.ingest.sourceType,
     status |-> plan.ingest.status,
     canonHash |-> plan.ingest.canonHash,
     storyId |-> plan.storyId,
     existing |-> plan.existing,
     embedded |-> done.ctx.embedded,
     orphanDeleted |-> done.ctx.orphanDeleted,
     soleStories |-> plan.soleStories,
     called |-> {plan.calls[k].call : k \in 1..done.made} \cap Services,
     storyTags |-> plan.storyTags,
     previous |-> plan.previous]

catchFailureUncounted(summary, threw) == summary

\* The catch of the iteration: summary.failed += 1 (indexer.ts:525-526).
catchFailure(summary, threw) == IF threw THEN [summary EXCEPT !.failed = @ + 1] ELSE summary

\* The end of an iteration: the store and the locals as the calls left them.
Commit(ctx, last) ==
    /\ stories' = ctx.stories
    /\ sources' = ctx.sources
    /\ vectors' = ctx.vectors
    /\ tags' = ctx.tags
    /\ objects' = ctx.objects
    /\ run' = [run EXCEPT
                 !.cursor = @ + 1,
                 !.vectorBatch = ctx.vectorBatch,
                 !.summary = catchFailure(ctx.summary, last.threw),
                 !.sourceByPath = ctx.sourceByPath,
                 !.canonicalByHash = ctx.canonicalByHash,
                 !.outcome[last.path] = last.outcome,
                 !.extractionFailures =
                     IF last.outcome = "failed" THEN @ \cup {last.path} ELSE @,
                 !.last = last]

Attempt(plan, done) ==
    /\ done.possible
    /\ Commit(done.ctx, LastStep(plan, done))

\* The iteration of the plan: no call throws (failAt 0), or the call at
\* position failAt does.
Iterate(plan) ==
    \E failAt \in 0..Len(plan.calls) :
        Attempt(plan, RunCalls(StepContext, plan.calls, 1, failAt))

\* One iteration of the file loop; whether the metadata service answers is
\* drawn from metadataOutcomes.
Process(metadataOutcomes) ==
    /\ run.pc = "files"
    /\ run.cursor <= Len(run.files)
    /\ \E metadataOk \in metadataOutcomes :
         Iterate(Plan(run.files[run.cursor], metadataOk))
    /\ UNCHANGED <<folder, settings, calls, api>>

ProcessFile == Process({TRUE})

\* The awaited calls after the loop (indexer.ts:536-568), in order.
FinishCalls ==
    <<"flushVectorBatch", "getDuplicateGroups", "writeReports",
      "setSetting.embedding_model_name", "setSetting.embedding_dimension",
      "setSetting.indexed_at">>

\* The code after the loop with the three setSetting calls ahead of
\* getDuplicateGroups and writeReports.
FinishSettingsFirst(failAt) ==
    /\ failAt = 1 => run.vectorBatch # <<>>
    /\ vectors' = IF failAt = 1 THEN vectors
                  ELSE upsertVectors(vectors, run.vectorBatch)
    /\ settings' =
         IF failAt = 1 THEN settings
         ELSE [model |-> run.model.name, dimension |-> run.model.dimension]
    /\ run' = IF failAt = 0
              THEN EndedRun("done", "returned", TRUE)
              ELSE EndedRun("failed", FinishCalls[failAt], failAt > 3)

\* The code after the loop, in which the call at position failAt throws (0:
\* none does): the calls before it are made, those from it on are not.
Finish(failAt) ==
    /\ failAt = 1 => run.vectorBatch # <<>>
    /\ vectors' = IF failAt = 1 THEN vectors
                  ELSE upsertVectors(vectors, run.vectorBatch)
    /\ settings' =
         [model |-> IF failAt \in {0, 5, 6} THEN run.model.name ELSE settings.model,
          dimension |-> IF failAt \in {0, 6} THEN run.model.dimension
                        ELSE settings.dimension]
    /\ run' = IF failAt = 0
              THEN EndedRun("done", "returned", TRUE)
              ELSE EndedRun("failed", FinishCalls[failAt], failAt > 3)

\* The code after the loop, with the throwing call drawn from failures.
FinishWith(failures) ==
    /\ run.pc = "files"
    /\ run.cursor > Len(run.files)
    /\ \E failAt \in failures : Finish(failAt)
    /\ UNCHANGED <<folder, stories, sources, tags, objects, calls, api>>

\* The run returns, or the final flush, getDuplicateGroups or writeReports
\* throws.
FinishRun == FinishWith(0..3)

Next == StartRun \/ AbortRun \/ ProcessFile \/ FinishRun

Spec == Init /\ [][Next]_vars


-----------------------------------------------------------------------------
(* Properties of the pipeline.                                             *)

\* The iteration before this state ran to its end and mapped its file to a
\* story.
StepMapped == run.last.outcome \in {"indexed", "deduped"}

SourcesOfPath(path) == {r \in sources : r.SOURCE_PATH = path}

SourcesOfStory(storyId) == {r \in sources : r.STORY_ID = storyId}

\* C1: in a run that does not reprocess existing stories, once two distinct
\* paths whose texts have the same canonical hash have both been processed,
\* there is exactly one Story row of that hash, its SOURCE_COUNT is 2, and
\* there are exactly two SourceRecords of it, one for each of the two paths.
DedupTwoPaths ==
    \A p, q \in PathSet :
        (/\ p # q
         /\ ~run.options.reprocessExisting
         /\ StepMapped
         /\ run.last.path = q
         /\ run.outcome[p] \in {"indexed", "deduped"}
         /\ Ingested[p][folder[p]].canonHash = run.last.canonHash)
        => LET same == {s \in stories : s.CANON_HASH = run.last.canonHash}
           IN /\ Cardinality(same) = 1
              /\ \A s \in same :
                   /\ s.SOURCE_COUNT = 2
                   /\ Cardinality(SourcesOfStory(s.STORY_ID)) = 2
                   /\ \A x \in {p, q} :
                        /\ Cardinality(SourcesOfPath(x)) = 1
                        /\ \A r \in SourcesOfPath(x) : r.STORY_ID = s.STORY_ID

\* The second of two paths with the same canonical text has just been
\* attached to the story of the first as a duplicate.
DedupTwoPathsWitness ==
    /\ ~run.options.reprocessExisting
    /\ run.last.outcome = "deduped"
    /\ run.last.path = "b.docx"
    /\ run.outcome["a.txt"] = "indexed"
    /\ Ingested["a.txt"][folder["a.txt"]].canonHash = run.last.canonHash

\* C2: no two Story rows share a CANON_HASH, whatever runs and failures came
\* before; a file that was mapped is mapped to the one row of its hash, under
\* the id of the row found for the hash or else the id derived from the hash.
OneStoryPerCanonHash ==
    /\ \A s, t \in stories : s.CANON_HASH = t.CANON_HASH => s = t
    /\ StepMapped =>
         /\ \E s \in stories : /\ s.CANON_HASH = run.last.canonHash
                               /\ s.STORY_ID = run.last.storyId
         /\ run.last.existing \/ run.last.storyId = createStoryId(run.last.canonHash)

\* A full run has upserted a story whose hash already had a row with two
\* sources, next to the row of another hash.
OneStoryPerCanonHashWitness ==
    /\ run.options.reprocessExisting
    /\ run.last.outcome = "indexed"
    /\ run.last.existing
    /\ \E s \in stories : s.STORY_ID = run.last.storyId /\ s.SOURCE_COUNT = 2
    /\ Cardinality(stories) = 2

\* C3: at the end of every iteration of the file loop, however the file ended
\* (indexed, deduped, skipped or failed at any call), the SOURCE_COUNT of
\* every Story is the number of SourceRecords that point at it.
SourceCountMatches ==
    run.last.outcome # "none" =>
        \A s \in stories : s.SOURCE_COUNT = countSources(sources, s.STORY_ID)

\* C4: when a path that had a SourceRecord is processed again with another
\* canonical hash, and the Story the record pointed at had no other
\* SourceRecord, then after the iteration that Story row is gone and the path
\* has a single SourceRecord, which points at the Story of the new hash.
OrphanCleanup ==
    StepMapped =>
        \A gone \in run.last.soleStories :
            /\ ~\E s \in stories : s.STORY_ID = gone
            /\ Cardinality(SourcesOfPath(run.last.path)) = 1
            /\ \A r \in SourcesOfPath(run.last.path) :
                 \E s \in stories : /\ s.STORY_ID = r.STORY_ID
                                    /\ s.CANON_HASH = run.last.canonHash

\* A path whose story had no other source has been mapped to the story of
\* another hash, and the orphan check has deleted the former story.
OrphanCleanupWitness ==
    /\ StepMapped
    /\ run.last.soleStories # {}
    /\ run.last.orphanDeleted \in run.last.soleStories

\* C10: a .txt file whose canonical text is shorter than minExtractChars is
\* classified TOO_SHORT, its Story is persisted with that status, no embedding
\* is generated for it and no vector of it is upserted or queued.
TooShortNotEmbedded ==
    (/\ run.last.outcome = "indexed"
     /\ run.last.sourceType = "txt"
     /\ Len(Ingested[run.last.path][folder[run.last.path]].normalizedText)
           < Config.minExtractChars)
    => /\ run.last.status = "TOO_SHORT"
       /\ \E s \in stories : /\ s.STORY_ID = run.last.storyId
                             /\ s.STORY_STATUS = "TOO_SHORT"
       /\ ~run.last.embedded
       /\ \A v \in vectors : v.storyId # run.last.storyId
       /\ \A i \in 1..Len(run.vectorBatch) :
            run.vectorBatch[i].storyId # run.last.storyId

\* The CHUNK_COUNT of the Story of the id, 0 when STORIES has no row of it.
ChunkCountOf(storyId) ==
    IF \E s \in stories : s.STORY_ID = storyId
    THEN (CHOOSE s \in stories : s.STORY_ID = storyId).CHUNK_COUNT
    ELSE 0

VectorsOf(storyId) == {v \in vectors : v.storyId = storyId}

\* C13: when no run is under way, whatever runs came before, the vectors of
\* the index whose id belongs to a story id are at most as many as the
\* CHUNK_COUNT of that Story, taken as 0 when no Story row has the id.
VectorsWithinChunkCount ==
    run.pc # "files" =>
        \A v \in vectors :
            Cardinality(VectorsOf(v.storyId)) <= ChunkCountOf(v.storyId)

\* C15: a failure confined to one file is recorded as a failure of that file
\* and the run goes on: an iteration in which a call threw ends with the file
\* counted and listed as failed and the loop at the next file, and no run ends
\* before its loop because reading and hashing one of its files threw.
FileFailureConfined ==
    /\ run.pc = "aborted" => run.ended # "prehash"
    /\ (run.pc = "files" /\ run.last.threw) =>
          /\ run.outcome[run.last.path] = "failed"
          /\ run.last.path \in run.extractionFailures
          /\ run.files[run.cursor - 1] = run.last.path

\* An iteration of the file loop has just been made.
IterationStep == run.pc = "files" /\ run'.pc = "files" /\ run'.cursor = run.cursor + 1

\* C16: the iteration of a file classified EXTRACTION_FAILED (or without a
\* canonical hash) writes nothing: STORIES, STORY_SOURCES, STORY_TAGS, the
\* object store, the vector index and the vector batch are as before it; the
\* file is counted as failed and is in the list extraction_failures.csv is
\* written from.
ExtractionFailedWritesNothing ==
    [][(/\ IterationStep
        /\ (run'.last.status = "EXTRACTION_FAILED" \/ run'.last.canonHash = Null))
       => /\ UNCHANGED store
          /\ run'.vectorBatch = run.vectorBatch
          /\ run'.outcome[run'.last.path] = "failed"
          /\ run'.last.path \in run'.extractionFailures]_vars

\* A damaged document has been classified EXTRACTION_FAILED in a run on a
\* store that holds a story.
ExtractionFailedWitness ==
    /\ run.pc = "files"
    /\ run.last.status = "EXTRACTION_FAILED"
    /\ "ingestSourceFile" \in run.last.called
    /\ ~run.last.threw
    /\ run.last.outcome = "failed"
    /\ stories # {}

\* The file the loop is at has a SourceRecord whose RAW_HASH is the hash of
\* the bytes the file holds now.
UnchangedFile ==
    /\ run.pc = "files"
    /\ run.cursor <= Len(run.files)
    /\ \E r \in SourcesOfPath(run.files[run.cursor]) :
          r.RAW_HASH = sha256Buffer(folder[run.files[run.cursor]].bytes)

\* C18: in a changed-only run, the iteration of a file whose path has a
\* SourceRecord with the RAW_HASH of the file's current bytes counts the file
\* as skipped, does not extract it, and writes nothing to the relational
\* store, the object store or the vector index.
UnchangedSkipped ==
    [][(IterationStep /\ run.options.changedOnly /\ UnchangedFile)
       => /\ run'.last.outcome = "skipped"
          /\ "ingestSourceFile" \notin run'.last.called
          /\ UNCHANGED store
          /\ run'.vectorBatch = run.vectorBatch]_vars

\* What C19 compares between two runs: the Story ids with their counts, the
\* Story of each path, and the vector ids.
StoryCounts ==
    {[STORY_ID |-> s.STORY_ID, SOURCE_COUNT |-> s.SOURCE_COUNT,
      CHUNK_COUNT |-> s.CHUNK_COUNT] : s \in stories}

PathMapping == {[SOURCE_PATH |-> r.SOURCE_PATH, STORY_ID |-> r.STORY_ID] : r \in sources}

VectorIds == {<<v.storyId, v.chunkIndex>> : v \in vectors}

\* C19: in a run without reprocessing over the folder of the run before it,
\* in which every file was indexed or deduped, every step (the iterations
\* and the code after the loop) leaves the Story ids, every SOURCE_COUNT and
\* CHUNK_COUNT, the Story of every path and the set of vector ids as they
\* were, and an iteration in which nothing throws ends skipped in a
\* changed-only run and deduped otherwise.
RerunIdempotent ==
    [][(run.pc = "files" /\ run.rerun /\ ~run.options.reprocessExisting)
       => /\ StoryCounts' = StoryCounts
          /\ PathMapping' = PathMapping
          /\ VectorIds' = VectorIds
          /\ (IterationStep /\ ~run'.last.threw) =>
                run'.last.outcome =
                    IF run.options.changedOnly THEN "skipped" ELSE "deduped"]_vars

\* The second run over an unchanged folder of two files has attached both as
\* duplicates.
RerunWitness ==
    /\ run.pc = "files"
    /\ run.rerun
    /\ ~run.options.changedOnly
    /\ ~run.options.reprocessExisting
    /\ Len(run.files) = 2
    /\ run.cursor > Len(run.files)
    /\ \A i \in 1..Len(run.files) : run.outcome[run.files[i]] = "deduped"
    /\ vectors # {}

-----------------------------------------------------------------------------
(* runIndexing over folders with files the classifier flags: a text with a *)
(* control character (BINARY_GARBAGE) and a scanned PDF                    *)
(* (PDF_SCANNED_IMAGE); the metadata service answers or fails.             *)

QualityStart == Begin(FlaggedFolders, RunOptions, {BaseModel})

QualityProcess == Process({TRUE, FALSE})

QualityFinish == FinishWith({0})

QualityNext == QualityStart \/ QualityProcess \/ QualityFinish

SpecQuality == Init /\ [][QualityNext]_vars

NoServiceStatuses == {"PDF_SCANNED_IMAGE", "BINARY_GARBAGE"}

\* C17: an iteration for a file classified PDF_SCANNED_IMAGE or
\* BINARY_GARBAGE calls neither the metadata service nor the embedding
\* service and leaves the vector batch and the vector index as they were;
\* when it goes through the full branch and ends indexed, its Story row is
\* there with that status, the canonical text and the chunk map are in the
\* object store, the metadata is the fallback one and the Story has no tag.
FlaggedNotEmbedded ==
    [][(IterationStep /\ run'.last.status \in NoServiceStatuses)
       => /\ "extractStoryMetadata" \notin run'.last.called
          /\ "embedInBatches" \notin run'.last.called
          /\ run'.vectorBatch = run.vectorBatch
          /\ vectors' = vectors
          /\ run'.last.outcome = "indexed" =>
               /\ \E s \in stories' : /\ s.STORY_ID = run'.last.storyId
                                      /\ s.STORY_STATUS = run'.last.status
               /\ [kind |-> "text", storyId |-> run'.last.storyId] \in objects'
               /\ [kind |-> "chunks", storyId |-> run'.last.storyId] \in objects'
               /\ run'.last.storyTags = {}
               /\ \A t \in tags' : t.STORY_ID # run'.last.storyId]_vars

\* The scanned PDF has gone through the full branch after the flagged text
\* did.
FlaggedWitness ==
    /\ run.pc = "files"
    /\ run.last.path = "c.pdf"
    /\ run.last.status = "PDF_SCANNED_IMAGE"
    /\ run.last.outcome = "indexed"
    /\ run.outcome["a.txt"] = "indexed"
    /\ \E s \in stories : s.STORY_STATUS = "BINARY_GARBAGE"
    /\ \E s \in stories : s.STORY_STATUS = "PDF_SCANNED_IMAGE"

-----------------------------------------------------------------------------
(* runIndexing under a changing configuration: each run is configured with *)
(* one of two embedding models, with or without --force-reindex, over a    *)
(* folder that holds a.txt or nothing; any of the six awaited calls after  *)
(* the loop can throw.  The first run finds the SETTINGS table empty, or   *)
(* as earlier runs over an empty folder left it.                           *)

SettingsFolders == {f \in Folders : f["b.docx"] = Absent}

\* SETTINGS after runs over an empty folder: no rows; the rows of a run that
\* returned; the name of a forced run with the other model whose
\* setSetting("embedding_dimension") threw over the dimension of an earlier
\* run.
StoredSettings ==
    {[settings |-> NoSettings, overridden |-> FALSE],
     [settings |-> [model |-> "bge-base", dimension |-> 768], overridden |-> FALSE],
     [settings |-> [model |-> "bge-large", dimension |-> 768], overridden |-> TRUE]}

SettingsInit ==
    /\ CallsIdle
    /\ folder = [p \in PathSet |-> Absent]
    /\ stories = {}
    /\ sources = {}
    /\ vectors = {}
    /\ tags = {}
    /\ objects = {}
    /\ api = [pc |-> "off"]
    /\ \E st \in StoredSettings, b \in Builds :
         /\ settings = st.settings
         /\ run = [NoRun(b) EXCEPT !.overridden = st.overridden]

SettingsStart == Begin(SettingsFolders, ForceOptions, EmbedModels)

SettingsAbort == Abort(SettingsFolders, ForceOptions, EmbedModels)

SettingsProcess == Process({TRUE})

SettingsFinish == FinishWith(0..Len(FinishCalls))

SettingsNext == SettingsStart \/ SettingsAbort \/ SettingsProcess \/ SettingsFinish

SpecSettings == SettingsInit /\ [][SettingsNext]_vars

\* A run ended in the code before the loop on the probe or on a settings
\* check.
SettingsAborted == run.pc = "aborted" /\ run.ended \in {"probe", "model", "dimension"}

\* C11: a run without --force-reindex is in its file loop only when the
\* stored model name is missing or is the run's and the stored dimension is
\* missing or is the probed one; and the step in which a run ends on the
\* dimension probe or on a settings check leaves STORIES, STORY_SOURCES,
\* STORY_TAGS, the object store, the vector index and SETTINGS unchanged,
\* with every file of the folder unprocessed.
SettingsMismatchAborts ==
    [][/\ (run'.pc = "files" /\ ~run'.options.forceReindex)
            => /\ settings'.model \in {"", run'.model.name}
               /\ settings'.dimension \in {0, run'.model.dimension}
       /\ SettingsAborted'
            => /\ UNCHANGED store
               /\ run.pc # "files"
               /\ run'.cursor = 1
               /\ \A p \in PathSet : run'.outcome[p] = "pending"]_vars

\* A run over a folder with a file has ended on the dimension check: stored
\* 768 against the 1024 of the probe, the store holding what an earlier run
\* indexed.
SettingsMismatchWitness ==
    /\ SettingsAborted
    /\ run.ended = "dimension"
    /\ settings.dimension = 768
    /\ run.files # <<>>
    /\ stories # {}

\* C12: as long as no run used --force-reindex, all vectors of the index
\* come from one embedding model.
OneEmbeddingModel ==
    ~run.overridden => \A v, w \in vectors : v.model = w.model

\* C14: when an invocation of runIndexing has ended, returning or throwing,
\* writeReports has written its reports.
ReportsAlwaysWritten ==
    run.pc \in {"done", "failed", "aborted"} => run.reports

-----------------------------------------------------------------------------
(* DELETE /api/story/:id (functions/api/story/[id].ts, onRequestDelete) on  *)
(* a store the indexer has filled: STORIES rows with their CHUNK_COUNT,    *)
(* vectors with indexes below and above it, SourceRecords, tags and        *)
(* objects.  A request names a story id; describe() of the vector index    *)
(* reports the dimensions or not; any awaited call can throw.              *)

VECTOR_DELETE_BATCH_SIZE == 500

VECTOR_QUERY_TOP_K == 50

VECTOR_CLEANUP_MAX_PASSES == 200

\* The awaited calls of one request in the stores of DeleteInit, at most.
MaxDeleteCalls == 15

\* The ids of the two stories of the deletion model: the one whose rows,
\* vectors and objects vary, and another one.
DeleteTarget == createStoryId(sha256Text(<<"a", "b", "c", "d", "e", "f">>))

DeleteOther == createStoryId(sha256Text(<<"a", "b">>))

DeleteStoryIds == {DeleteTarget, DeleteOther}

\* STORY_VECTORS.deleteByIds: the id of a vector is `${storyId}:${index}`.
deleteByIds(index, ids) == {v \in index : <<v.storyId, v.chunkIndex>> \notin ids}

\* STORY_VECTORS.query with filter { storyId } and topK: at most topK of the
\* story's vectors.
queryMatches(index, storyId) ==
    IF Cardinality({v \in index : v.storyId = storyId}) <= VECTOR_QUERY_TOP_K
    THEN {v \in index : v.storyId = storyId}
    ELSE CHOOSE m \in SUBSET {v \in index : v.storyId = storyId} :
            Cardinality(m) = VECTOR_QUERY_TOP_K

\* The stores and the progress of one request: failIn counts down to the
\* awaited call that throws (0: none), threw tells that it did.
DeleteContext(failIn) ==
    [stories |-> stories, sources |-> sources, vectors |-> vectors,
     tags |-> tags, objects |-> objects, failIn |-> failIn, threw |-> FALSE]

\* An awaited call: it throws, or the handler goes on with its effect.
Await(d, after) ==
    IF d.threw THEN d
    ELSE IF d.failIn = 1 THEN [d EXCEPT !.threw = TRUE, !.failIn = 0]
    ELSE [after EXCEPT !.failIn = IF d.failIn = 0 THEN 0 ELSE d.failIn - 1]

\* deleteKnownChunkVectors: one deleteByIds per batch of ids below chunkCount.
RECURSIVE deleteKnownChunkVectors(_, _, _, _)
deleteKnownChunkVectors(d, storyId, chunkCount, start) ==
    IF start >= chunkCount THEN d
    ELSE deleteKnownChunkVectors(
            Await(d, [d EXCEPT !.vectors =
                        deleteByIds(@, {<<storyId, i>> : i \in
                            {j \in start..(chunkCount - 1) :
                                j < start + VECTOR_DELETE_BATCH_SIZE}})]),
            storyId, chunkCount, start + VECTOR_DELETE_BATCH_SIZE)

\* The loop of cleanupRemainingStoryVectors: a query, and a deleteByIds of
\* its matches unless there is none.
RECURSIVE cleanupPasses(_, _, _)
RECURSIVE cleanupMatches(_, _, _)
cleanupPasses(d, storyId, pass) ==
    IF d.threw \/ pass >= VECTOR_CLEANUP_MAX_PASSES THEN d
    ELSE cleanupMatches(Await(d, d), storyId, pass)

cleanupMatches(q, storyId, pass) ==
    IF q.threw \/ queryMatches(q.vectors, storyId) = {} THEN q
    ELSE cleanupPasses(
            Await(q, [q EXCEPT !.vectors = @ \ queryMatches(@, storyId)]),
            storyId, pass + 1)

\* cleanupRemainingStoryVectors: nothing when resolveVectorDimensions returns
\* null (0 here), which it also does when describe() throws.
cleanupRemainingStoryVectors(d, storyId, dimensions) ==
    IF d.threw \/ dimensions <= 0 THEN d ELSE cleanupPasses(d, storyId, 0)

\* deleteStoryR2Objects: the delete of R2_KEY and CHUNKS_KEY, the list of
\* sources/original/{storyId}/ and the delete of what it lists.
deleteOriginals(d, storyId) ==
    IF d.threw \/ [kind |-> "original", storyId |-> storyId] \notin d.objects
    THEN d
    ELSE Await(d, [d EXCEPT !.objects =
                      {o \in @ : ~(o.kind = "original" /\ o.storyId = storyId)}])

\* An awaited call that changes nothing in the stores of the model.
Returns(d) == Await(d, d)

deleteKeys(d, storyId) ==
    Await(d, [d EXCEPT !.objects =
                {o \in @ : ~(o.kind \in {"text", "chunks"} /\ o.storyId = storyId)}])

deleteStoryR2Objects(d, storyId) ==
    deleteOriginals(Returns(deleteKeys(d, storyId)), storyId)

\* The DELETE statements of the handler, in order: STORY_SOURCES, STORY_TAGS,
\* STORY_USER_TAGS, STORY_TEXT, STORIES, TAGS, USER_TAGS.
deleteStorySources(d, storyId) ==
    Await(d, [d EXCEPT !.sources = {r \in @ : r.STORY_ID # storyId}])

deleteStoryTagRows(d, storyId) ==
    Await(d, [d EXCEPT !.tags = {t \in @ : t.STORY_ID # storyId}])

deleteStoryRow(d, storyId) ==
    Await(d, [d EXCEPT !.stories = {r \in @ : r.STORY_ID # storyId}])

deleteRows(d, storyId) ==
    Returns(Returns(
        deleteStoryRow(
            Returns(Returns(
                deleteStoryTagRows(deleteStorySources(d, storyId), storyId))),
            storyId)))

\* The handler from the SELECT that found the row on: chunkCount is
\* Math.max(0, CHUNK_COUNT ?? 0).
deleteFound(d, storyId, chunkCount, dimensions) ==
    deleteRows(
        deleteStoryR2Objects(
            cleanupRemainingStoryVectors(
                deleteKnownChunkVectors(d, storyId, Max(0, chunkCount), 0),
                storyId, dimensions),
            storyId),
        storyId)

\* The response of the handler and the stores it leaves: 404 when the SELECT
\* finds no row, 500 when an awaited call threw, ok otherwise.
Respond(storyId, status, d) ==
    /\ d.failIn = 0
    /\ api' = [pc |-> "responded", storyId |-> storyId,
               status |-> IF d.threw THEN 500 ELSE status,
               ok |-> ~d.threw /\ status = 200]
    /\ stories' = d.stories
    /\ sources' = d.sources
    /\ vectors' = d.vectors
    /\ tags' = d.tags
    /\ objects' = d.objects

\* The handler after its SELECT.
Selected(storyId, d, dimensions) ==
    IF d.threw \/ \A r \in d.stories : r.STORY_ID # storyId
    THEN Respond(storyId, 404, d)
    ELSE Respond(storyId, 200,
                 deleteFound(d, storyId,
                             (CHOOSE r \in d.stories : r.STORY_ID = storyId).CHUNK_COUNT,
                             dimensions))

\* onRequestDelete for the id of the request (Null: none, 400).
onRequestDelete(storyId, dimensions, failIn) ==
    IF storyId = Null
    THEN /\ failIn = 0
         /\ api' = [pc |-> "responded", storyId |-> storyId, status |-> 400,
                    ok |-> FALSE]
         /\ UNCHANGED <<stories, sources, vectors, tags, objects>>
    ELSE Selected(storyId, Returns(DeleteContext(failIn)), dimensions)

\* What describe() of the vector index makes resolveVectorDimensions return:
\* null (0), or the dimensions of the index.
DescribedDimensions == {0, 768}

RequestDelete ==
    /\ api.pc \in {"idle", "responded"}
    /\ \E storyId \in DeleteStoryIds \cup {Null},
          dimensions \in DescribedDimensions,
          failIn \in 0..MaxDeleteCalls :
         onRequestDelete(storyId, dimensions, failIn)
    /\ UNCHANGED <<folder, settings, run, calls>>

\* The vectors the indexer can have left: those of the first n chunks of the
\* target, as a run with that many chunks upserted them, and that of the
\* other story or not.
DeleteVectors(n, other) ==
    {[storyId |-> DeleteTarget, chunkIndex |-> i, storyStatus |-> "OK",
      model |-> BaseModel] : i \in 0..(n - 1)}
    \cup (IF other
          THEN {[storyId |-> DeleteOther, chunkIndex |-> 0,
                 storyStatus |-> "TOO_SHORT", model |-> BaseModel]}
          ELSE {})

DeleteObjects(original) ==
    {[kind |-> k, storyId |-> id] : k \in {"text", "chunks"}, id \in DeleteStoryIds}
    \cup (IF original THEN {[kind |-> "original", storyId |-> DeleteTarget]} ELSE {})

\* The store before the first request: the row of the target with the
\* CHUNK_COUNT of its last indexing, 1 or 2, that of the other story, their
\* SourceRecords, tags and objects, and the vectors of up to three chunks of
\* the target, more than CHUNK_COUNT when an earlier indexing with a smaller
\* chunk size made more chunks.
DeleteInit ==
    /\ CallsIdle
    /\ folder = [p \in PathSet |-> Absent]
    /\ settings = NoSettings
    /\ run \in {NoRun(b) : b \in {"lookup"}}
    /\ api = [pc |-> "idle"]
    /\ \E chunkCount \in 1..2 :
         stories = {[STORY_ID |-> DeleteTarget,
                     CANON_HASH |-> sha256Text(<<"a", "b", "c", "d", "e", "f">>),
                     STORY_STATUS |-> "OK", SOURCE_COUNT |-> 1,
                     CHUNK_COUNT |-> chunkCount],
                    [STORY_ID |-> DeleteOther,
                     CANON_HASH |-> sha256Text(<<"a", "b">>),
                     STORY_STATUS |-> "TOO_SHORT", SOURCE_COUNT |-> 1,
                     CHUNK_COUNT |-> 1]}
    /\ sources = {[STORY_ID |-> DeleteTarget, SOURCE_PATH |-> "b.docx",
                    RAW_HASH |-> sha256Buffer(<<"P", "K", "a">>)],
                   [STORY_ID |-> DeleteOther, SOURCE_PATH |-> "a.txt",
                    RAW_HASH |-> sha256Buffer(<<"a", "b">>)]}
    /\ \E n \in 0..3, other \in BOOLEAN : vectors = DeleteVectors(n, other)
    /\ tags \in SUBSET {[STORY_ID |-> id, TAG |-> "tag"] : id \in DeleteStoryIds}
    /\ \E original \in BOOLEAN : objects = DeleteObjects(original)

DeleteNext == RequestDelete

SpecDelete == DeleteInit /\ [][DeleteNext]_vars

\* C20: when the handler has answered ok for a story id, the store holds no
\* STORIES row, no SourceRecord, no tag, no object and no vector of that id.
DeleteRemovesEverything ==
    (api.pc = "responded" /\ api.ok)
        => /\ \A r \in stories : r.STORY_ID # api.storyId
           /\ \A r \in sources : r.STORY_ID # api.storyId
           /\ \A t \in tags : t.STORY_ID # api.storyId
           /\ \A o \in objects : o.storyId # api.storyId
           /\ \A v \in vectors : v.storyId # api.storyId

-----------------------------------------------------------------------------
(* Properties of the dedupe path, the order of the stages, the vector      *)
(* batches and the counters of a run.                                      *)

\* The iteration now made got past the unchanged and extraction checks for a
\* file whose canonical hash is that of a STORIES row.
StoryOfFileExists ==
    /\ IterationStep
    /\ run'.last.outcome # "skipped"
    /\ run'.last.canonHash # Null
    /\ \E s \in stories : s.CANON_HASH = run'.last.canonHash

\* C21: an iteration without reprocessExisting for a file whose canonical
\* hash is that of a Story in the store calls neither the metadata service
\* nor the embedding service, leaves the rows of STORIES as they were but
\* for SOURCE_COUNT, leaves tags, objects, the index and the vector batch
\* unchanged, and ends deduped unless one of its calls throws.
ExistingStoryDeduped ==
    [][(StoryOfFileExists /\ ~run.options.reprocessExisting)
       => /\ "extractStoryMetadata" \notin run'.last.called
          /\ "embedInBatches" \notin run'.last.called
          /\ {[r EXCEPT !.SOURCE_COUNT = 0] : r \in stories'}
                \subseteq {[r EXCEPT !.SOURCE_COUNT = 0] : r \in stories}
          /\ UNCHANGED <<tags, objects, vectors>>
          /\ run'.vectorBatch = run.vectorBatch
          /\ ~run'.last.threw => run'.last.outcome = "deduped"]_vars

\* C22: in the full branch the embeddings of a file come before its rows: an
\* iteration that asked the metadata service and did not get embeddings back
\* from embedInBatches has written neither a STORIES row nor a SourceRecord.
EmbedBeforePersist ==
    [][(/\ IterationStep
        /\ "extractStoryMetadata" \in run'.last.called
        /\ ~run'.last.embedded)
       => (stories' = stories /\ sources' = sources)]_vars

\* The SourceRecords of the path that carry the RAW_HASH of the bytes now in
\* the folder: what makes a changed-only run skip the file as unchanged.
CurrentRecords(table, relativePath) ==
    {r \in table : /\ r.SOURCE_PATH = relativePath
                   /\ r.RAW_HASH = sha256Buffer(folder[relativePath].bytes)}

\* C23: an iteration that ends failed for a file that had no SourceRecord
\* with the RAW_HASH of its bytes leaves none behind, so that the next
\* changed-only run does not take the file for unchanged.
FailedFileNotRecorded ==
    [][(/\ IterationStep
        /\ run'.last.outcome = "failed"
        /\ CurrentRecords(sources, run'.last.path) = {})
       => CurrentRecords(sources', run'.last.path) = {}]_vars

IdsOfIndex(index) == {<<v.storyId, v.chunkIndex>> : v \in index}

IdsOfBatch(batch) == {<<batch[i].storyId, batch[i].chunkIndex>> : i \in 1..Len(batch)}

\* The ids storyId:00000 .. storyId:(chunkCount-1) of the Story in the table.
IdsOfStory(table, storyId) == UNION {{<<r.STORY_ID, i>> : i \in 0..(r.CHUNK_COUNT - 1)} : r \in {s \in table : s.STORY_ID = storyId}}

ReturnStep == run.pc = "files" /\ run'.pc = "done" /\ run'.ended = "returned"

\* C25: the vector ids that are in the index or in the batch stay there
\* through every iteration, whether a flush in it threw or not; after an
\* iteration counted as indexed with a status that permits embeddings every
\* vector id of its Story is in the index or in the batch; and when the run
\* returns the batch is empty and every id it held is in the index.
VectorsAllUpserted ==
    [][/\ IterationStep
          => /\ IdsOfIndex(vectors) \cup IdsOfBatch(run.vectorBatch)
                   \subseteq IdsOfIndex(vectors') \cup IdsOfBatch(run'.vectorBatch)
             /\ (run'.last.outcome = "indexed" /\ shouldGenerateEmbeddings(run'.last.status))
                   => IdsOfStory(stories', run'.last.storyId)
                         \subseteq IdsOfIndex(vectors') \cup IdsOfBatch(run'.vectorBatch)
       /\ ReturnStep
          => /\ run'.vectorBatch = <<>>
             /\ IdsOfIndex(vectors) \cup IdsOfBatch(run.vectorBatch)
                   \subseteq IdsOfIndex(vectors')]_vars

\* A run has returned with every file indexed or deduped and vectors in the
\* index.
VectorsAllUpsertedWitness ==
    run.pc = "done" /\ run.ended = "returned" /\ run.mapped /\ vectors # {}

Counted(summary) == summary.indexed + summary.deduped + summary.skipped + summary.failed

\* C26: every iteration of the file loop adds one to exactly one of indexed,
\* deduped, skipped and failed and takes nothing from the others, and at the
\* step in which runIndexing returns scanned is the sum of the four.
CountersAddUp ==
    [][/\ IterationStep
          => /\ Counted(run'.summary) = Counted(run.summary) + 1
             /\ \A c \in {"indexed", "deduped", "skipped", "failed"} :
                  run'.summary[c] >= run.summary[c]
             /\ run'.summary[run'.last.outcome] = run.summary[run'.last.outcome] + 1
       /\ ReturnStep => run.summary.scanned = Counted(run.summary)]_vars

\* Every file of a folder of two or more has had its iteration, one of them
\* ended failed and one indexed.
CountersWitness ==
    /\ run.pc = "files" /\ run.cursor > Len(run.files) /\ Len(run.files) >= 2
    /\ run.summary.failed >= 1 /\ run.summary.indexed >= 1
    /\ run.summary.scanned = Len(run.files)

\* The end the chunk from `start` has when a paragraph break counts from 60%
\* of chunkSizeChars past the start on and a sentence break from 55% on.
EndByShare(cleaned, start, size, paragraphBreak, sentenceBreak) ==
    IF paragraphBreak >= 0 /\ 10 * (paragraphBreak - start) >= 6 * size
    THEN paragraphBreak
    ELSE IF sentenceBreak >= 0 /\ 100 * (sentenceBreak - start) >= 55 * size
         THEN sentenceBreak + 1
         ELSE start + size

\* An iteration of the loop whose tentative end lies before the end of the
\* text and which pushes a chunk.
MidTextStep ==
    /\ chunker.pc = "loop"
    /\ chunker.start + chunker.options.chunkSizeChars < Len(chunker.cleaned)
    /\ Len(chunker'.chunks) = Len(chunker.chunks) + 1

\* C27: a chunk whose tentative end lies before the end of the text ends at
\* the last paragraph break at or before the tentative end if that break is
\* at least 60% of chunkSizeChars past the start, else just after the last
\* sentence break if that is at least 55% past the start, else at the
\* tentative end; the next chunk starts at max(0, end - overlapChars).
ChunkEndsAtBreak ==
    [][MidTextStep
       => /\ chunker'.chunks[Len(chunker'.chunks)].startChar = chunker.start
          /\ chunker'.chunks[Len(chunker'.chunks)].endChar
               = EndByShare(chunker.cleaned, chunker.start,
                            chunker.options.chunkSizeChars,
                            lastIndexOf(chunker.cleaned, <<"LF", "LF">>,
                                        chunker.start + chunker.options.chunkSizeChars),
                            lastIndexOf(chunker.cleaned, <<".", "SP">>,
                                        chunker.start + chunker.options.chunkSizeChars))
          /\ chunker'.pc = "loop"
               => chunker'.start
                    = Max(0, chunker'.chunks[Len(chunker'.chunks)].endChar
                               - chunker.options.overlapChars)]_vars

\* An iteration in which the metadata service was asked and failed (the
\* story is persisted without the tags of the service) and no call threw.
MetadataFallbackStep ==
    /\ IterationStep
    /\ "extractStoryMetadata" \in run'.last.called
    /\ run'.last.storyTags = {}
    /\ ~run'.last.threw

\* C30: when the metadata service fails for a file whose status permits it,
\* the file is counted as indexed, its Story is persisted with the status of
\* the file, the audit note in its status notes and no tag, the embeddings
\* are generated and every vector of the Story is in the batch or the index.
MetadataFallbackIndexed ==
    [][MetadataFallbackStep
       => /\ run'.last.outcome = "indexed"
          /\ run'.summary.indexed = run.summary.indexed + 1
          /\ run'.summary.failed = run.summary.failed
          /\ \E s \in stories' : /\ s.STORY_ID = run'.last.storyId
                                 /\ s.STORY_STATUS = run'.last.status
                                 /\ MetadataFailureNote \in s.STATUS_NOTES
                                 /\ s.CHUNK_COUNT >= 1
          /\ \A t \in tags' : t.STORY_ID # run'.last.storyId
          /\ run'.last.embedded
          /\ IdsOfStory(stories', run'.last.storyId)
               \subseteq IdsOfIndex(vectors') \cup IdsOfBatch(run'.vectorBatch)]_vars

\* The iteration of a file with a status that permits the services has ended
\* indexed with the audit note on its Story and embeddings generated.
MetadataFallbackWitness ==
    /\ run.pc = "files"
    /\ run.last.outcome = "indexed"
    /\ "extractStoryMetadata" \in run.last.called
    /\ run.last.embedded
    /\ \E s \in stories : /\ s.STORY_ID = run.last.storyId
                          /\ MetadataFailureNote \in s.STATUS_NOTES

-----------------------------------------------------------------------------
(* chunkText on any text, canonical or not: empty, whitespace only, with   *)
(* carriage returns and with blanks at both ends.                          *)

MaxAnyTextLen == 5

AnyAlphabet == {"a", "SP", "LF", "CR"}

ChunkAnyInit ==
    /\ chunker \in {ChunkerCall(t, o, 1, <<>>) :
                      t \in SeqsUpTo(AnyAlphabet, MaxAnyTextLen),
                      o \in ChunkConfigs}
    /\ canon = CanonIdle
    /\ classifier = ClassifierIdle
    /\ PipelineIdle

SpecChunkAny == ChunkAnyInit /\ [][ChunkNext]_vars

\* C28: the i-th chunk of the list, counted from 0, has chunkIndex i, at
\* every point of the loop and in the list returned; chunkText returns no
\* chunk for an empty or whitespace-only text and at least one for any other.
ChunkIndicesDense ==
    /\ \A i \in 1..Len(chunker.chunks) : chunker.chunks[i].chunkIndex = i - 1
    /\ chunker.pc = "returned" => (chunker.chunks = <<>> <=> IsBlank(chunker.text))

\* A returned list of two chunks or more of a text that is not canonical,
\* with a whitespace-only window left out between two of them.
ChunkIndicesWitness ==
    /\ chunker.pc = "returned"
    /\ Len(chunker.chunks) >= 2
    /\ normalizeCanonicalText(chunker.text) # chunker.text
    /\ \E i \in 1..(Len(chunker.chunks) - 1) :
         chunker.chunks[i + 1].startChar > chunker.chunks[i].endChar

\* C29: with overlapChars < chunkSizeChars the start offset of chunkText is
\* larger in every iteration than in the one before, so the loop reaches the
\* end of the text.
ChunkStartIncreases ==
    [][(/\ chunker.pc = "loop" /\ chunker'.pc = "loop"
        /\ chunker.options.overlapChars < chunker.options.chunkSizeChars)
       => chunker'.start > chunker.start]_vars

-----------------------------------------------------------------------------
(* The vector batch of runIndexing, one vector at a time: the test before  *)
(* each push, flushVectorBatch and the flush after the loop over the files.*)
(* A vector is the byte length of its JSON text.                           *)

MaxBatchFiles == 2

MaxFileVectors == 2

VectorJsonBytes == {1, 4}

BatchConfigs == [vectorBatchSize : {1, 2}, vectorBatchMaxBytes : {3, 6}]

\* Buffer.byteLength(JSON.stringify(vector), "utf8") + 1
vectorBytes(json) == json + 1

RECURSIVE JsonBytes(_)
JsonBytes(batch) == IF batch = <<>> THEN 0 ELSE Head(batch) + JsonBytes(Tail(batch))

\* The call client.upsertVectors(batch): the vectors it carries, and the bytes
\* of its body, the JSON texts joined by one newline each.
upsertRequest(batch) == [count |-> Len(batch), bytes |-> JsonBytes(batch) + (Len(batch) - 1)]

NoUpsert == [count |-> 0, bytes |-> 0]

BatchFull(b, json) == Len(b.vectorBatch) >= b.config.vectorBatchSize \/ b.vectorBatchBytes + vectorBytes(json) > b.config.vectorBatchMaxBytes

\* flushVectorBatch when the upsert is accepted; an empty batch makes no call.
flushVectorBatch(b) == IF b.vectorBatch = <<>> THEN [b EXCEPT !.call = NoUpsert] ELSE [b EXCEPT !.call = upsertRequest(b.vectorBatch), !.upserted = @ + Len(b.vectorBatch), !.vectorBatch = <<>>, !.vectorBatchBytes = 0]

\* flushVectorBatch when upsertVectors throws: the two resets are not reached.
flushVectorBatchThrows(b) == [b EXCEPT !.call = upsertRequest(b.vectorBatch)]

pushVector(b, json) == [b EXCEPT !.vectorBatch = Append(@, json), !.vectorBatchBytes = @ + vectorBytes(json), !.pushed = @ + 1, !.files = <<Tail(Head(@))>> \o Tail(@)]

BatchInit ==
    /\ CallsIdle
    /\ folder = [p \in PathSet |-> Absent]
    /\ settings = NoSettings
    /\ api = [pc |-> "idle"]
    /\ stories = {} /\ sources = {} /\ vectors = {} /\ tags = {} /\ objects = {}
    /\ \E config \in BatchConfigs, files \in SeqsUpTo(SeqsUpTo(VectorJsonBytes, MaxFileVectors), MaxBatchFiles) :
         run = [pc |-> "batch", config |-> config, files |-> files,
                vectorBatch |-> <<>>, vectorBatchBytes |-> 0,
                call |-> NoUpsert, pushed |-> 0, upserted |-> 0]

BatchStepping == run.pc = "batch" /\ run.files # <<>>

\* One turn of the loop over the chunks of a file, the flush accepted.
PushVector ==
    /\ BatchStepping /\ Head(run.files) # <<>>
    /\ run' = pushVector(IF BatchFull(run, Head(Head(run.files))) THEN flushVectorBatch(run) ELSE [run EXCEPT !.call = NoUpsert], Head(Head(run.files)))
    /\ UNCHANGED <<canon, chunker, classifier, folder, stories, sources, vectors, tags, objects, settings, api>>

\* The flush before a push throws: the file fails and the loop goes on with
\* the next file.
FlushThrows ==
    /\ BatchStepping /\ Head(run.files) # <<>>
    /\ BatchFull(run, Head(Head(run.files))) /\ run.vectorBatch # <<>>
    /\ run' = [flushVectorBatchThrows(run) EXCEPT !.files = Tail(@)]
    /\ UNCHANGED <<canon, chunker, classifier, folder, stories, sources, vectors, tags, objects, settings, api>>

\* All chunks of the file are in the batch: the file is indexed.
FileIndexed ==
    /\ BatchStepping /\ Head(run.files) = <<>>
    /\ run' = [run EXCEPT !.files = Tail(@), !.call = NoUpsert]
    /\ UNCHANGED <<canon, chunker, classifier, folder, stories, sources, vectors, tags, objects, settings, api>>

\* await flushVectorBatch() after the loop.
FinalFlush ==
    /\ run.pc = "batch" /\ run.files = <<>>
    /\ \/ run' = [flushVectorBatch(run) EXCEPT !.pc = "returned"]
       \/ run.vectorBatch # <<>> /\ run' = [flushVectorBatchThrows(run) EXCEPT !.pc = "threw"]
    /\ UNCHANGED <<canon, chunker, classifier, folder, stories, sources, vectors, tags, objects, settings, api>>

BatchNext == PushVector \/ FlushThrows \/ FileIndexed \/ FinalFlush

SpecBatch == BatchInit /\ [][BatchNext]_vars

\* C24: every call of upsertVectors carries at most vectorBatchSize vectors and
\* at most vectorBatchMaxBytes bytes of serialized vectors.
UpsertWithinLimits ==
    run.pc \in {"batch", "returned", "threw"}
        => /\ run.call.count <= run.config.vectorBatchSize
           /\ run.call.bytes <= run.config.vectorBatchMaxBytes

-----------------------------------------------------------------------------
(* Properties of the mapping of paths to stories, of the settings and of   *)
(* the orphan check.                                                       *)

\* C36: whatever iterations and runs came before, failed ones included, no
\* path has more than one SourceRecord, and after an iteration that mapped
\* its file the record of the path points at the Story of the iteration.
OneSourcePerPath ==
    /\ \A p \in PathSet : Cardinality(SourcesOfPath(p)) <= 1
    /\ StepMapped => \A r \in SourcesOfPath(run.last.path) : r.STORY_ID = run.last.storyId

\* The file of the last iteration had a record pointing at a Story of another
\* hash, which the iteration deleted as an orphan: the path has one record,
\* that of the new Story.
OneSourcePerPathWitness ==
    /\ StepMapped
    /\ run.last.orphanDeleted # Null
    /\ run.last.orphanDeleted # run.last.storyId
    /\ Cardinality(SourcesOfPath(run.last.path)) = 1


\* The calls after the loop at which a run ends before its first setSetting.
BeforeSettings == {"flushVectorBatch", "getDuplicateGroups", "writeReports"}

\* C37: SETTINGS changes only in the step after the file loop of a run whose
\* final flush, getDuplicateGroups and writeReports have returned; a run that
\* ends before the loop or on one of those three calls leaves SETTINGS as it
\* was; and when a run returns, forced or not, the stored model name and
\* dimension are those of the run's model and probe.
SettingsWrittenLast ==
    [][/\ settings' # settings
          => /\ run.pc = "files" /\ run.cursor > Len(run.files)
             /\ run'.pc \in {"done", "failed"}
             /\ run'.reports
             /\ run'.ended \notin BeforeSettings
       /\ (run.pc # run'.pc /\ (run'.pc = "aborted" \/ (run'.pc = "failed" /\ run'.ended \in BeforeSettings)))
          => settings' = settings
       /\ ReturnStep
          => settings' = [model |-> run.model.name, dimension |-> run.model.dimension]]_vars

\* A forced run with another model than the stored one has returned and left
\* its name and dimension in SETTINGS.
SettingsWrittenWitness ==
    /\ run.pc = "done" /\ run.ended = "returned"
    /\ run.overridden
    /\ settings = [model |-> "bge-large", dimension |-> 1024]


StoryIds(table) == {s.STORY_ID : s \in table}

\* The Stories other than that of the iteration which the path's previous
\* SourceRecord pointed at.
PriorStories == run'.last.previous \ {run'.last.storyId}

\* C38: an iteration deletes no Story but one its path's previous record
\* pointed at, other than the Story of the iteration, and only with the
\* path's new SourceRecord written and no SourceRecord of the deleted Story
\* left; when no call throws, a prior Story that still has a source is kept
\* with SOURCE_COUNT equal to the number of its sources, and one that has none
\* is gone.
OrphanCheckAfterMapping ==
    [][IterationStep
       => /\ \A id \in StoryIds(stories) \ StoryIds(stories') :
               /\ id \in PriorStories
               /\ \E r \in sources' : /\ r.SOURCE_PATH = run'.last.path
                                      /\ r.STORY_ID = run'.last.storyId
               /\ \A r \in sources' : r.STORY_ID # id
          /\ (~run'.last.threw /\ run'.last.outcome \in {"indexed", "deduped"})
               => \A id \in PriorStories :
                    IF \E r \in sources' : r.STORY_ID = id
                    THEN \A s \in stories : s.STORY_ID = id
                           => \E t \in stories' :
                                /\ t.STORY_ID = id
                                /\ t.SOURCE_COUNT = countSources(sources', id)
                    ELSE id \notin StoryIds(stories')]_vars

\* The path of the last iteration moved from a Story that another path still
\* points at: the prior Story is kept with the count of its remaining sources.
OrphanCheckWitness ==
    /\ StepMapped
    /\ \E id \in run.last.previous \ {run.last.storyId} :
         \E s \in stories : /\ s.STORY_ID = id
                            /\ s.SOURCE_COUNT = 1
                            /\ countSources(sources, id) = 1


\* C39: after every iteration of the file loop, failed ones included, every
\* Story row has at least one SourceRecord pointing at it.
NoZeroSourceStory ==
    (run.pc = "files" /\ run.last.outcome # "none")
        => \A s \in stories : countSources(sources, s.STORY_ID) >= 1

-----------------------------------------------------------------------------
(* extractStoryMetadata of the LM Studio client: the first chat completion, *)
(* the parse of its text, the repair request and the parse of its text.     *)
(* A response text is a JSON body and what surrounds it; an array is the    *)
(* number of its distinct non-blank strings.                                *)

Clients == {"lmstudio.ts", "part_015"}

ThemeLimit(client) == IF client = "lmstudio.ts" THEN 5 ELSE 8

JsonUndefined == [type |-> "undefined", value |-> "", count |-> 0]

JsonTitles == {[type |-> "string", value |-> "Story", count |-> 0], [type |-> "string", value |-> " ", count |-> 0], [type |-> "number", value |-> "7", count |-> 0], JsonUndefined}

ThemeCounts == {0, 5, 6, 9}

JsonThemes == {[type |-> "array", value |-> "", count |-> n] : n \in ThemeCounts} \cup {[type |-> "string", value |-> "love", count |-> 0]}

JsonObjects == [kind : {"object"}, title : JsonTitles, themes : JsonThemes]

\* Bodies that are no object: a JSON array, the JSON null, an object cut off
\* before its closing brace, and plain prose.
OtherBodies == [kind : {"array", "null", "truncated", "prose"}, title : {JsonUndefined}, themes : {JsonUndefined}]

ResponseTexts == [wrap : {"bare", "fenced", "prose"}, body : JsonObjects \cup OtherBodies]

\* callChatCompletion throws instead of returning a text.
ChatThrown == [wrap |-> "none", body |-> [kind |-> "thrown", title |-> JsonUndefined, themes |-> JsonUndefined]]

ChatOutcomes == ResponseTexts \cup {ChatThrown}

\* extractJson: the inside of a fence, else the span from the first "{" to
\* the last "}", else the trimmed text with whatever surrounds the body.
extractJson(raw) == [body |-> raw.body, clean |-> raw.wrap \in {"bare", "fenced"} \/ raw.body.kind = "object"]

\* JSON.parse returns a value; otherwise it throws.
JsonParses(json) == json.clean /\ json.body.kind \in {"object", "array", "null"}

Parsable(raw) == raw # ChatThrown /\ JsonParses(extractJson(raw))

trim(s) == IF s = " " THEN "" ELSE s

asArray(value, limit) == IF value.type = "array" THEN Min(value.count, limit) ELSE 0

normalizeMetadata(client, value) == [title |-> IF value.title.type = "string" /\ trim(value.title.value) # "" THEN trim(value.title.value) ELSE "Untitled Story", themes |-> asArray(value.themes, ThemeLimit(client))]

NoMetadata == [title |-> "", themes |-> 0]

\* return normalizeMetadata(JSON.parse(extractJson(text))), or the throw of
\* JSON.parse.
parseReturn(r, text) == IF Parsable(text) THEN [r EXCEPT !.pc = "returned", !.metadata = normalizeMetadata(r.client, text.body)] ELSE [r EXCEPT !.pc = "threw"]

\* The try block on the first text; its catch issues the repair request.
parseFirst(r, text) == IF Parsable(text) THEN parseReturn(r, text) ELSE [r EXCEPT !.pc = "repair", !.repairs = @ + 1]

parseRepairedAgain(r, text) == parseFirst(r, text)

\* The last line of the catch block, on the repaired text.
parseRepaired(r, text) == parseReturn(r, text)

MetadataInit ==
    /\ CallsIdle
    /\ folder = [p \in PathSet |-> Absent]
    /\ settings = NoSettings
    /\ api = [pc |-> "idle"]
    /\ stories = {} /\ sources = {} /\ vectors = {} /\ tags = {} /\ objects = {}
    /\ \E client \in Clients :
         run = [pc |-> "metadata", client |-> client, raw |-> <<>>, repairs |-> 0, metadata |-> NoMetadata]

\* The first callChatCompletion settles and the code runs on to the return,
\* the throw or the await of the repair request.
FirstCompletion ==
    /\ run.pc = "metadata"
    /\ \E outcome \in ChatOutcomes :
         run' = IF outcome = ChatThrown
                THEN [run EXCEPT !.pc = "threw", !.raw = Append(@, outcome)]
                ELSE parseFirst([run EXCEPT !.raw = Append(@, outcome)], outcome)
    /\ UNCHANGED <<canon, chunker, classifier, folder, stories, sources, vectors, tags, objects, settings, api>>

\* The repair request settles.
RepairCompletion ==
    /\ run.pc = "repair"
    /\ \E outcome \in ChatOutcomes :
         run' = IF outcome = ChatThrown
                THEN [run EXCEPT !.pc = "threw", !.raw = Append(@, outcome)]
                ELSE parseRepaired([run EXCEPT !.raw = Append(@, outcome)], outcome)
    /\ UNCHANGED <<canon, chunker, classifier, folder, stories, sources, vectors, tags, objects, settings, api>>

MetadataNext == FirstCompletion \/ RepairCompletion

SpecMetadata == MetadataInit /\ [][MetadataNext]_vars

WithinSchema(client, metadata) == metadata.title \notin {"", " "} /\ metadata.themes <= ThemeLimit(client)

-----------------------------------------------------------------------------
(* callChatCompletion: the loop over the attempts, one step per awaited     *)
(* request or sleep.  An outcome of request() is the content or the error   *)
(* it throws.                                                               *)

MaxRetriesBound == 4

HttpStatuses == {400, 401, 429, 500}

ChatContent == [kind |-> "content", status |-> 200, code |-> "", message |-> ""]

\* new LmStudioRequestError(response.status, ...)
LmStudioRequestError(status) == [kind |-> "LmStudioRequestError", status |-> status, code |-> "", message |-> "LM Studio chat request failed"]

\* What fetch and request throw besides: a refused connection, a headers
\* timeout of undici, the abort of AbortSignal.timeout, a response without
\* content.
FetchFailed == [kind |-> "Error", status |-> 0, code |-> "ECONNREFUSED", message |-> "fetch failed"]

HeadersTimeout == [kind |-> "Error", status |-> 0, code |-> "UND_ERR_HEADERS_TIMEOUT", message |-> "fetch failed"]

AbortTimeout == [kind |-> "Error", status |-> 0, code |-> "", message |-> "The operation was aborted due to timeout"]

NoContent == [kind |-> "Error", status |-> 0, code |-> "", message |-> "LM Studio chat response did not include content"]

RequestOutcomes == {ChatContent, FetchFailed, HeadersTimeout, AbortTimeout, NoContent} \cup {LmStudioRequestError(status) : status \in HttpStatuses}

isRetryable(error) == IF error.kind = "LmStudioRequestError" THEN error.status = 408 \/ error.status = 429 \/ error.status >= 500 ELSE error.code \in {"UND_ERR_HEADERS_TIMEOUT", "UND_ERR_CONNECT_TIMEOUT"} \/ error.message = "fetch failed"

backoffMs(attempt) == Min(750 * 2 ^ attempt, 5000)

\* The request has been sent and its outcome is known.
requested(c, format, outcome) == [c EXCEPT !.log = Append(@, [format |-> format, attempt |-> c.attempt, outcome |-> outcome])]

\* The end of a catch block that did not throw: await sleep(backoffMs).
sleepNext(c) == [c EXCEPT !.pc = "sleep", !.sleeps = Append(@, backoffMs(c.attempt))]

throwOrSleepAlways(c, error) == IF c.attempt >= c.maxRetries THEN [c EXCEPT !.pc = "threw"] ELSE sleepNext(c)

\* throw error / throw textError, or the fall through to the sleep.
throwOrSleep(c, error) == IF c.attempt >= c.maxRetries \/ ~isRetryable(error) THEN [c EXCEPT !.pc = "threw"] ELSE sleepNext(c)

\* The catch of the request with the schema.
catchSchema(c, error) == IF error.kind = "LmStudioRequestError" /\ error.status = 400 THEN [c EXCEPT !.pc = "text"] ELSE throwOrSleep(c, error)

ChatInit ==
    /\ CallsIdle
    /\ folder = [p \in PathSet |-> Absent]
    /\ settings = NoSettings
    /\ api = [pc |-> "idle"]
    /\ stories = {} /\ sources = {} /\ vectors = {} /\ tags = {} /\ objects = {}
    /\ \E maxRetries \in 1..MaxRetriesBound :
         run = [pc |-> "schema", maxRetries |-> maxRetries, attempt |-> 0, log |-> <<>>, sleeps |-> <<>>]

\* await request({type: "json_schema", ...}) settles.
SchemaRequest ==
    /\ run.pc = "schema"
    /\ \E outcome \in RequestOutcomes :
         run' = IF outcome = ChatContent
                THEN [requested(run, "json_schema", outcome) EXCEPT !.pc = "returned"]
                ELSE catchSchema(requested(run, "json_schema", outcome), outcome)
    /\ UNCHANGED <<canon, chunker, classifier, folder, stories, sources, vectors, tags, objects, settings, api>>

\* await request({type: "text"}) settles.
TextRequest ==
    /\ run.pc = "text"
    /\ \E outcome \in RequestOutcomes :
         run' = IF outcome = ChatContent
                THEN [requested(run, "text", outcome) EXCEPT !.pc = "returned"]
                ELSE throwOrSleep(requested(run, "text", outcome), outcome)
    /\ UNCHANGED <<canon, chunker, classifier, folder, stories, sources, vectors, tags, objects, settings, api>>

\* The sleep ends: attempt += 1 and the test of the while loop.
Sleep ==
    /\ run.pc = "sleep"
    /\ run' = [run EXCEPT !.attempt = @ + 1, !.pc = IF run.attempt + 1 <= run.maxRetries THEN "schema" ELSE "threw"]
    /\ UNCHANGED <<canon, chunker, classifier, folder, stories, sources, vectors, tags, objects, settings, api>>

ChatNext == SchemaRequest \/ TextRequest \/ Sleep

SpecChat == ChatInit /\ [][ChatNext]_vars

\* Every awaited request and sleep settles (the request carries a timeout).
SpecChatFair == SpecChat /\ WF_vars(ChatNext)

ChatPcs == {"schema", "text", "sleep", "returned", "threw"}

ChatTerminates == <>(run.pc \in {"returned", "threw"})

\* The failures the claim calls retryable: a network error, HTTP 408, 429, 5xx.
RetryableFailures == {FetchFailed, HeadersTimeout} \cup {LmStudioRequestError(status) : status \in {s \in HttpStatuses : s = 408 \/ s = 429 \/ s >= 500}}

NonRetryableFailures == {NoContent} \cup {LmStudioRequestError(status) : status \in {s \in HttpStatuses : s # 408 /\ s # 429 /\ s < 500}}

\* C32 as stated: callChatCompletion makes at most maxRetries+1 attempts and waits
\* min(750*2^attempt, 5000) ms after attempt number attempt; a retryable failure
\* with attempts left is followed by the sleep and the next attempt; a
\* non-retryable failure is the last request of the call, which throws without
\* a sleep.
ChatRetryPolicy ==
    run.pc \in ChatPcs
        => /\ run.attempt <= run.maxRetries
           /\ \A i \in 1..Len(run.sleeps) : run.sleeps[i] = Min(750 * 2 ^ (i - 1), 5000)
           /\ \A i \in 1..Len(run.log) :
                /\ (run.log[i].outcome \in RetryableFailures /\ run.log[i].attempt < run.maxRetries)
                      => /\ Len(run.sleeps) > run.log[i].attempt
                         /\ i < Len(run.log) \/ run.pc \in {"sleep", "schema"}
                /\ run.log[i].outcome \in NonRetryableFailures
                      => /\ i = Len(run.log)
                         /\ run.pc = "threw"
                         /\ Len(run.sleeps) = run.log[i].attempt

\* The answer HTTP 400 to the request with the schema.
SchemaRefused(entry) == entry.format = "json_schema" /\ entry.outcome = LmStudioRequestError(400)

\* C32: callChatCompletion makes at most maxRetries+1 attempts of at most two
\* requests each and waits min(750*2^attempt, 5000) ms after attempt number
\* attempt; a retryable failure with attempts left is followed by the sleep and
\* the next attempt; HTTP 400 on the request with the schema is followed by one
\* request in text mode in the same attempt; every other non-retryable failure
\* is the last request of the call, which throws without a sleep.
ChatRetryPolicyText ==
    run.pc \in ChatPcs
        => /\ run.attempt <= run.maxRetries
           /\ Len(run.log) <= 2 * (run.attempt + 1)
           /\ \A i \in 1..Len(run.sleeps) : run.sleeps[i] = Min(750 * 2 ^ (i - 1), 5000)
           /\ \A i \in 1..Len(run.log) :
                /\ (run.log[i].outcome \in RetryableFailures /\ run.log[i].attempt < run.maxRetries)
                      => /\ Len(run.sleeps) > run.log[i].attempt
                         /\ i < Len(run.log) \/ run.pc \in {"sleep", "schema"}
                /\ SchemaRefused(run.log[i])
                      => \/ i = Len(run.log) /\ run.pc = "text"
                         \/ i < Len(run.log) /\ run.log[i + 1].format = "text" /\ run.log[i + 1].attempt = run.log[i].attempt
                /\ (run.log[i].outcome \in NonRetryableFailures /\ ~SchemaRefused(run.log[i]))
                      => /\ i = Len(run.log)
                         /\ run.pc = "threw"
                         /\ Len(run.sleeps) = run.log[i].attempt
                /\ run.log[i].outcome = ChatContent => i = Len(run.log) /\ run.pc = "returned"

ChatRetryWitness ==
    /\ run.pc = "threw" /\ run.maxRetries = 4 /\ run.attempt = 4
    /\ run.sleeps = <<750, 1500, 3000, 5000>>
    /\ \E i \in 1..Len(run.log) : SchemaRefused(run.log[i]) /\ run.log[i].attempt = 0
    /\ run.log[Len(run.log)].outcome = LmStudioRequestError(401)

-----------------------------------------------------------------------------
(* embedInBatches and createWorkersAiEmbeddings: one step per request to    *)
(* the embedding service, then the vector records of the story.  A vector   *)
(* is known by the text it embeds; the service answers in the order of its  *)
(* inputs, with any number of vectors and in any of its response formats.   *)

MaxEmbedInputs == 3

MaxEmbeddingBatch == 3

EmbedTexts == {"a", "b"}

Embedding(text) == [of |-> text]

RECURSIVE Embeddings(_)
Embeddings(inputs) == IF inputs = <<>> THEN <<>> ELSE <<Embedding(Head(inputs))>> \o Embeddings(Tail(inputs))

\* The first k vectors of an answer to the inputs, an unasked one added when
\* k is larger than their number.
AnswerOf(inputs, k) == IF k <= Len(inputs) THEN SubSeq(Embeddings(inputs), 1, k) ELSE Append(Embeddings(inputs), Embedding("a"))

\* The responses of the service to a request: result.data as rows or as
\* objects with an embedding, result.data as the numbers of one vector,
\* result.embedding, a result of another form, and a failed request.
WorkersAiResponses(inputs) == [ok : {TRUE}, shape : {"rows", "objects"}, vectors : {AnswerOf(inputs, k) : k \in 0..(Len(inputs) + 1)}] \cup [ok : {TRUE}, shape : {"numbers", "embedding", "other"}, vectors : {AnswerOf(inputs, 1)}] \cup [ok : {FALSE}, shape : {"other"}, vectors : {<<>>}]

EmbeddingsThrown == [threw |-> TRUE, vectors |-> <<>>]

parseEmbeddings(result) == IF result.shape = "other" THEN EmbeddingsThrown ELSE [threw |-> FALSE, vectors |-> result.vectors]

countUnchecked(parsed, inputs) == TRUE

\* vectors.length !== inputs.length && !(vectors.length === 1 && inputs.length === 1), negated
countAccepted(parsed, inputs) == ~(Len(parsed) # Len(inputs) /\ ~(Len(parsed) = 1 /\ Len(inputs) = 1))

\* createWorkersAiEmbeddings on the response to its request.
createWorkersAiEmbeddings(inputs, response) == IF ~response.ok THEN EmbeddingsThrown ELSE IF parseEmbeddings(response).threw THEN EmbeddingsThrown ELSE IF countAccepted(parseEmbeddings(response).vectors, inputs) THEN parseEmbeddings(response) ELSE EmbeddingsThrown

\* inputs.slice(start, start + config.embeddingBatchSize), start counted from 0
slice(inputs, start, end) == SubSeq(inputs, start + 1, Min(end, Len(inputs)))

\* One turn of the loop of embedInBatches on the settled request.
embedBatch(r, created) == IF created.threw THEN [r EXCEPT !.pc = "threw"] ELSE [r EXCEPT !.vectors = @ \o created.vectors, !.start = @ + r.embeddingBatchSize]

\* The loop over the chunks: id from the index, values embeddings[index],
\* chunkIndex and text of chunks[index].  An index past the end of embeddings
\* reads undefined.
VectorRecord(r, index) == [id |-> index, values |-> IF index + 1 <= Len(r.vectors) THEN r.vectors[index + 1] ELSE [of |-> "undefined"], chunkIndex |-> index, text |-> r.inputs[index + 1]]

EmbedInit ==
    /\ CallsIdle
    /\ folder = [p \in PathSet |-> Absent]
    /\ settings = NoSettings
    /\ api = [pc |-> "idle"]
    /\ stories = {} /\ sources = {} /\ vectors = {} /\ tags = {} /\ objects = {}
    /\ \E size \in 1..MaxEmbeddingBatch, inputs \in SeqsUpTo(EmbedTexts, MaxEmbedInputs) :
         run = [pc |-> "embedding", embeddingBatchSize |-> size, inputs |-> inputs, start |-> 0,
                requests |-> <<>>, responses |-> <<>>, vectors |-> <<>>, records |-> <<>>]

\* await createWorkersAiEmbeddings(config, batch) settles.
EmbedBatch ==
    /\ run.pc = "embedding" /\ run.start < Len(run.inputs)
    /\ \E response \in WorkersAiResponses(slice(run.inputs, run.start, run.start + run.embeddingBatchSize)) :
         run' = embedBatch([run EXCEPT !.requests = Append(@, slice(run.inputs, run.start, run.start + run.embeddingBatchSize)), !.responses = Append(@, response)],
                           createWorkersAiEmbeddings(slice(run.inputs, run.start, run.start + run.embeddingBatchSize), response))
    /\ UNCHANGED <<canon, chunker, classifier, folder, stories, sources, vectors, tags, objects, settings, api>>

\* embedInBatches returns and the loop over the chunks builds the records.
BuildVectors ==
    /\ run.pc = "embedding" /\ run.start >= Len(run.inputs)
    /\ run' = [run EXCEPT !.pc = "built", !.records = [i \in 1..Len(run.inputs) |-> VectorRecord(run, i - 1)]]
    /\ UNCHANGED <<canon, chunker, classifier, folder, stories, sources, vectors, tags, objects, settings, api>>

EmbedNext == EmbedBatch \/ BuildVectors

SpecEmbed == EmbedInit /\ [][EmbedNext]_vars

EmbedPcs == {"embedding", "built", "threw"}

\* C33: a request to the embedding service either adds one vector per input
\* of its batch, in the order of the inputs, or fails; the batches are the
\* consecutive slices of at most embeddingBatchSize texts; when embedInBatches
\* returns there is one vector per chunk, and every vector record carries the
\* embedding of the text of the chunk with the record's index.
EmbeddingsMatchChunks ==
    run.pc \in EmbedPcs
        => /\ \A i \in 1..Len(run.requests) :
                /\ Len(run.requests[i]) \in 1..run.embeddingBatchSize
                /\ run.requests[i] = SubSeq(run.inputs, (i - 1) * run.embeddingBatchSize + 1, Min(i * run.embeddingBatchSize, Len(run.inputs)))
           /\ run.pc # "threw" => run.vectors = Embeddings(Flatten(run.requests))
           /\ run.pc = "threw" => run.vectors = Embeddings(Flatten(SubSeq(run.requests, 1, Len(run.requests) - 1)))
           /\ run.pc = "built"
                => /\ Len(run.vectors) = Len(run.inputs)
                   /\ Len(run.records) = Len(run.inputs)
                   /\ \A i \in 1..Len(run.records) :
                        /\ run.records[i].id = i - 1 /\ run.records[i].chunkIndex = i - 1
                        /\ run.records[i].values = Embedding(run.inputs[i])

EmbeddingsWitness ==
    /\ run.pc = "built" /\ run.embeddingBatchSize = 2
    /\ run.inputs = <<"a", "b", "b">>
    /\ Len(run.requests) = 2
    /\ run.responses[2].shape = "numbers"

-----------------------------------------------------------------------------
(* The extractors with more than one strategy: extractRtf, extractPdf and   *)
(* extractHtml.  A text is the number of its non-blank characters and       *)
(* whether blanks surround them; what a strategy gives is a text or a throw.*)

TextChars == {0, 119, 120, 239, 240}

PdfMinTextChars == {100, 800}

StrategyThrown == [threw |-> TRUE, chars |-> 0, padded |-> FALSE]

\* Texts as a library returns them, and texts made of trimmed pieces.
RawOutputs == {StrategyThrown} \cup [threw : {FALSE}, chars : TextChars, padded : BOOLEAN]

TrimmedOutputs == {o \in RawOutputs : ~o.padded}

\* runCommand("unrtf", ...): ok, and stdout as its "###" lines (header) and
\* the characters of the other lines.
UnrtfResults == [ok : BOOLEAN, header : BOOLEAN, chars : {0, 120}]

EmptyText == [chars |-> 0, padded |-> FALSE]

TextOf(output) == [chars |-> output.chars, padded |-> output.padded]

\* text.trim() is not the empty string
NonBlank(text) == text.chars > 0

\* reflowPdfText on such a text: lines trimmed, paragraphs joined
reflowChars(text) == [chars |-> text.chars, padded |-> FALSE]

Extraction(method, text, error, tried) == [extractMethod |-> method, extractedText |-> text, errorMessage |-> error, tried |-> tried]

\* The try block of extractRtf returns whatever parseRtfToText resolved to.
RtfAccepted(parsed) == ~parsed.threw

extractRtf(parsed, unrtf) == IF RtfAccepted(parsed) THEN Extraction("rtf_lib", TextOf(parsed), Undefined, <<"rtf_lib">>) ELSE IF unrtf.ok /\ (unrtf.header \/ unrtf.chars > 0) THEN Extraction("unrtf_fallback", [chars |-> unrtf.chars, padded |-> FALSE], Undefined, <<"rtf_lib", "unrtf_fallback">>) ELSE Extraction("failed", EmptyText, IF unrtf.ok THEN "RTF extraction produced no text" ELSE "unrtf unavailable or failed", <<"rtf_lib", "unrtf_fallback">>)

PdfParseFloor(pdfMinTextChars) == Max(120, (pdfMinTextChars * 3) \div 10)

PdfParseAccepted(parsed, pdfMinTextChars) == ~parsed.threw /\ reflowChars(TextOf(parsed)).chars >= PdfParseFloor(pdfMinTextChars)

extractPdfChain(parsed, fallback, pdfMinTextChars) == IF PdfParseAccepted(parsed, pdfMinTextChars) THEN Extraction("pdf_parse", reflowChars(TextOf(parsed)), Undefined, <<"pdf_parse">>) ELSE IF ~fallback.threw THEN Extraction("pdfjs_fallback", reflowChars(TextOf(fallback)), Undefined, <<"pdf_parse", "pdfjs_fallback">>) ELSE Extraction("failed", EmptyText, "pdfjs error", <<"pdf_parse", "pdfjs_fallback">>)

HtmlFirst(mode) == IF mode = "readability_first" THEN <<"readability">> ELSE <<>>

extractHtml(mode, article, domText, body) == IF mode = "readability_first" /\ ~article.threw /\ NonBlank(TextOf(article)) THEN Extraction("readability", TextOf(article), Undefined, <<"readability">>) ELSE IF ~domText.threw /\ NonBlank(TextOf(domText)) THEN Extraction("dom_text", TextOf(domText), Undefined, HtmlFirst(mode) \o <<"dom_text">>) ELSE Extraction("fallback", TextOf(body), Undefined, HtmlFirst(mode) \o <<"dom_text", "fallback">>)

NoExtraction == Extraction("none", EmptyText, Undefined, <<>>)

ExtractInit ==
    /\ CallsIdle
    /\ folder = [p \in PathSet |-> Absent]
    /\ settings = NoSettings
    /\ api = [pc |-> "idle"]
    /\ stories = {} /\ sources = {} /\ vectors = {} /\ tags = {} /\ objects = {}
    /\ \E sourceType \in {"rtf", "pdf", "html"}, pdfMinTextChars \in PdfMinTextChars, mode \in {"readability_first", "dom_only"} :
         run = [pc |-> "extract", sourceType |-> sourceType, pdfMinTextChars |-> pdfMinTextChars, htmlExtractMode |-> mode,
                outputs |-> <<>>, result |-> NoExtraction]

ExtractRtf ==
    /\ run.pc = "extract" /\ run.sourceType = "rtf"
    /\ \E parsed \in TrimmedOutputs, unrtf \in UnrtfResults :
         run' = [run EXCEPT !.pc = "extracted", !.outputs = <<parsed, unrtf>>, !.result = extractRtf(parsed, unrtf)]
    /\ UNCHANGED <<canon, chunker, classifier, folder, stories, sources, vectors, tags, objects, settings, api>>

ExtractPdf ==
    /\ run.pc = "extract" /\ run.sourceType = "pdf"
    /\ \E parsed \in RawOutputs, fallback \in RawOutputs :
         run' = [run EXCEPT !.pc = "extracted", !.outputs = <<parsed, fallback>>, !.result = extractPdfChain(parsed, fallback, run.pdfMinTextChars)]
    /\ UNCHANGED <<canon, chunker, classifier, folder, stories, sources, vectors, tags, objects, settings, api>>

ExtractHtml ==
    /\ run.pc = "extract" /\ run.sourceType = "html"
    /\ \E article \in RawOutputs, domText \in TrimmedOutputs, body \in {o \in RawOutputs : ~o.threw} :
         run' = [run EXCEPT !.pc = "extracted", !.outputs = <<article, domText, body>>, !.result = extractHtml(run.htmlExtractMode, article, domText, body)]
    /\ UNCHANGED <<canon, chunker, classifier, folder, stories, sources, vectors, tags, objects, settings, api>>

ExtractNext == ExtractRtf \/ ExtractPdf \/ ExtractHtml

SpecExtract == ExtractInit /\ [][ExtractNext]_vars

\* The strategies of a format in their order.
Strategies(r) == IF r.sourceType = "rtf" THEN <<"rtf_lib", "unrtf_fallback">> ELSE IF r.sourceType = "pdf" THEN <<"pdf_parse", "pdfjs_fallback">> ELSE HtmlFirst(r.htmlExtractMode) \o <<"dom_text", "fallback">>

IsPrefix(s, t) == Len(s) <= Len(t) /\ s = SubSeq(t, 1, Len(s))

\* What the strategy at a position gave, as the text the extractor looks at.
OutputAt(r, i) == r.outputs[i + Len(r.outputs) - Len(Strategies(r))]

Qualifies(r, i) == IF Strategies(r)[i] = "unrtf_fallback" THEN OutputAt(r, i).ok /\ OutputAt(r, i).chars > 0 ELSE ~OutputAt(r, i).threw /\ OutputAt(r, i).chars > 0 /\ (Strategies(r)[i] = "pdf_parse" => OutputAt(r, i).chars >= PdfParseFloor(r.pdfMinTextChars))

\* The part of the claim every extractor meets: the order, the fall through
\* of strategies that did not qualify, and the shape of a failed result.
ExtractionChain(r) ==
    /\ IsPrefix(r.result.tried, Strategies(r))
    /\ r.result.extractMethod \in {"failed", r.result.tried[Len(r.result.tried)]}
    /\ \A i \in 1..(Len(r.result.tried) - 1) : ~Qualifies(r, i)
    /\ r.result.extractMethod = "failed" => r.result.errorMessage \notin {Undefined, ""} /\ r.result.extractedText = EmptyText
    /\ r.result.extractMethod # "failed" => r.result.errorMessage = Undefined

\* C34: the strategies of a format are tried in their order; a strategy that
\* is not the last one is accepted only with a non-empty (pdf-parse: long
\* enough) text, and otherwise the next one is tried; the last one's text is
\* returned unchecked; a failed result has an error message and empty text.
StrategiesChecked ==
    run.pc = "extracted"
        => /\ ExtractionChain(run)
           /\ \A i \in 1..(Len(Strategies(run)) - 1) : run.result.extractMethod = Strategies(run)[i] => Qualifies(run, i) /\ NonBlank(run.result.extractedText)

-----------------------------------------------------------------------------
(* mapWithConcurrency: the workers started by the call, one step per        *)
(* settled await of a worker.  Between two awaits a worker runs alone, so   *)
(* reading nextIndex and adding one to it is one step with the settling.    *)

MaxItems == 4

MaxConcurrency == 3

\* The files of the folder in the order of collectFiles.
AllItems == [i \in 1..MaxItems |-> i]

\* What worker(item) resolves to.
ResultOf(item) == [of |-> item]

NotStored == [of |-> 0]

WorkerIdle == [state |-> "returned", index |-> 0]

\* Math.max(1, Math.min(concurrency, items.length))
WorkerCount(concurrency, items) == Max(1, Min(concurrency, Len(items)))

claimStale(m, w) == [m EXCEPT !.workers[w] = [state |-> "awaiting", index |-> m.nextIndex], !.handed = Append(@, m.nextIndex)]

\* const index = nextIndex; nextIndex += 1; worker(items[index]) is called.
claim(m, w) == [m EXCEPT !.workers[w] = [state |-> "awaiting", index |-> m.nextIndex], !.nextIndex = @ + 1, !.handed = Append(@, m.nextIndex)]

\* The test of the while loop of runWorker, then the claim or the return.
runWorker(m, w) == IF m.nextIndex < Len(m.items) THEN claim(m, w) ELSE [m EXCEPT !.workers[w] = WorkerIdle]

\* The workers are started one after the other, each running to its first
\* await.
RECURSIVE startWorkers(_, _)
startWorkers(m, w) == IF w > WorkerCount(m.concurrency, m.items) THEN m ELSE startWorkers(runWorker(m, w), w + 1)

\* Promise.all: resolved when every worker returned, rejected with the first
\* worker that threw.
promiseAll(m) == IF m.settled = "pending" /\ \A w \in 1..WorkerCount(m.concurrency, m.items) : m.workers[w].state = "returned" THEN [m EXCEPT !.settled = "resolved"] ELSE m

InFlight(m) == {w \in DOMAIN m.workers : m.workers[w].state = "awaiting"}

WorkersInit ==
    /\ CallsIdle
    /\ folder = [p \in PathSet |-> Absent]
    /\ settings = NoSettings
    /\ api = [pc |-> "idle"]
    /\ stories = {} /\ sources = {} /\ vectors = {} /\ tags = {} /\ objects = {}
    /\ \E n \in 0..MaxItems, concurrency \in 1..MaxConcurrency :
         run = [pc |-> "map", items |-> SubSeq(AllItems, 1, n), concurrency |-> concurrency, nextIndex |-> 0,
                results |-> [i \in 1..n |-> NotStored], workers |-> [w \in 1..MaxConcurrency |-> WorkerIdle],
                handed |-> <<>>, settled |-> "pending"]

\* The call: [] for no items, otherwise the workers are started.
CallMap ==
    /\ run.pc = "map"
    /\ run' = IF run.items = <<>> THEN [run EXCEPT !.pc = "mapping", !.settled = "resolved"] ELSE startWorkers([run EXCEPT !.pc = "mapping"], 1)
    /\ UNCHANGED <<canon, chunker, classifier, folder, stories, sources, vectors, tags, objects, settings, api>>

\* worker(items[index]) of one worker resolves: the result is stored and the
\* worker goes round its loop.
WorkerResolves ==
    /\ run.pc = "mapping"
    /\ \E w \in InFlight(run) :
         run' = promiseAll(runWorker([run EXCEPT !.results[run.workers[w].index + 1] = ResultOf(run.items[run.workers[w].index + 1])], w))
    /\ UNCHANGED <<canon, chunker, classifier, folder, stories, sources, vectors, tags, objects, settings, api>>

\* worker(items[index]) of one worker rejects: runWorker rejects and with it
\* Promise.all; the other workers go on.
WorkerRejects ==
    /\ run.pc = "mapping"
    /\ \E w \in InFlight(run) :
         run' = [run EXCEPT !.workers[w] = [state |-> "threw", index |-> run.workers[w].index], !.settled = IF @ = "pending" THEN "rejected" ELSE @]
    /\ UNCHANGED <<canon, chunker, classifier, folder, stories, sources, vectors, tags, objects, settings, api>>

WorkersNext == CallMap \/ WorkerResolves \/ WorkerRejects

SpecWorkers == WorkersInit /\ [][WorkersNext]_vars

\* C35: no item is handed out twice; at most max(1, min(concurrency, items))
\* workers are in flight; a result is stored only at the index of its item; a
\* call that resolves has handed out every item exactly once, in the order of
\* the items, and holds every item's result at the item's index.
EachItemOnce ==
    run.pc \in {"map", "mapping"}
        => /\ \A i, j \in 1..Len(run.handed) : run.handed[i] = run.handed[j] => i = j
           /\ \A i \in 1..Len(run.handed) : run.handed[i] = i - 1
           /\ Len(run.handed) = run.nextIndex /\ run.nextIndex <= Len(run.items)
           /\ Cardinality(InFlight(run)) <= Max(1, Min(run.concurrency, Len(run.items)))
           /\ \A v, w \in InFlight(run) : run.workers[v].index = run.workers[w].index => v = w
           /\ \A i \in 1..Len(run.items) : run.results[i] \in {NotStored, ResultOf(run.items[i])}
           /\ run.settled = "resolved"
                => /\ Len(run.handed) = Len(run.items)
                   /\ InFlight(run) = {}
                   /\ \A i \in 1..Len(run.items) : run.results[i] = ResultOf(run.items[i])

EachItemOnceWitness ==
    /\ run.pc = "mapping" /\ run.settled = "resolved"
    /\ Len(run.items) = 4 /\ run.concurrency = 2
    /\ run.handed = <<0, 1, 2, 3>>

=============================================================================
